---- MODULE Spec2Model ----
(***************************************************************************)
(* taskweb: the task-action and period-accounting engine.                  *)
(*                                                                         *)
(* Money is counted in cents (Decimal with two places), a bonus percent in *)
(* hundredths of a percent, a calendar date as its proleptic Gregorian     *)
(* ordinal (datetime.date.toordinal), a timestamp as a count of ticks of   *)
(* which TicksPerDay make one local day.                                   *)
(***************************************************************************)
EXTENDS Integers, Sequences, FiniteSets, TLC

(***************************************************************************)
(* Calendar arithmetic of datetime.date, as periods.py uses it.            *)
(***************************************************************************)
IsLeap(y) == (y % 4 = 0) /\ ((y % 100 # 0) \/ (y % 400 = 0))

DaysBeforeYear(y) == (y - 1) * 365 + ((y - 1) \div 4) - ((y - 1) \div 100) + ((y - 1) \div 400)

DaysInMonth(y, m) ==
    IF m = 2 THEN (IF IsLeap(y) THEN 29 ELSE 28)
    ELSE IF m \in {4, 6, 9, 11} THEN 30 ELSE 31

\* the days of a common year before each month
DaysBeforeMonthTable == <<0, 31, 59, 90, 120, 151, 181, 212, 243, 273, 304, 334>>

\* the days of year y before its month m
DaysBeforeMonth[y \in Int, m \in 1..12] ==
    DaysBeforeMonthTable[m] + (IF m > 2 /\ IsLeap(y) THEN 1 ELSE 0)

\* date(y, m, d) as an ordinal
MkDate[y \in Int, m \in 1..12, d \in 1..31] == DaysBeforeYear(y) + DaysBeforeMonth[y, m] + d

\* the year that n400 400-year cycles, n100 centuries, n4 4-year cycles and n1 years
\* after 0001-01-01 fall in (the last day of a leap cycle belongs to the year before)
YearFromCycles(n400, n100, n4, n1) ==
    IF n1 = 4 \/ n100 = 4
    THEN n400 * 400 + n100 * 100 + n4 * 4 + n1
    ELSE n400 * 400 + n100 * 100 + n4 * 4 + n1 + 1

\* date.year of an ordinal
YearOf[o \in Int] ==
    YearFromCycles((o - 1) \div 146097,
                   ((o - 1) % 146097) \div 36524,
                   (((o - 1) % 146097) % 36524) \div 1461,
                   ((((o - 1) % 146097) % 36524) % 1461) \div 365)

\* the month of year y its n-th day (from 0) falls in, given an estimate of it that
\* is right or one too large
MonthFromEstimate[y \in Int, n \in Int, month \in 1..12] ==
    IF DaysBeforeMonth[y, month] > n THEN month - 1 ELSE month

\* the month of year y that ordinal o falls in
MonthInYear[y \in Int, o \in Int] ==
    MonthFromEstimate[y, o - DaysBeforeYear(y) - 1, (o - DaysBeforeYear(y) - 1 + 50) \div 32]

\* date.month of an ordinal
MonthOf[o \in Int] == MonthInYear[YearOf[o], o]

\* date.weekday(): Monday is 0
Weekday(o) == (o + 6) % 7

\* no clamping: the second argument whatever the first
second_argument(a, b) == b

Max(a, b) == IF a >= b THEN a ELSE b

\* date.min.toordinal() and date.max.toordinal(): 0001-01-01 and 9999-12-31
MinOrdinal == 1

MaxOrdinal == 3652059

\* what stands for the ValueError or OverflowError of a date out of that range
DateError == -2

\* a date computed by date(...) or by date - timedelta: itself, or the error
checked_date(o) == IF MinOrdinal <= o /\ o <= MaxOrdinal THEN o ELSE DateError

(***************************************************************************)
(* Period resolver (core/services/periods.py).  The resolvers are          *)
(* functions of their keyword arguments, in the order of the signature.    *)
(***************************************************************************)
TicksPerDay == 2

local_date_from_dt(ts) == ts \div TicksPerDay

\* no alignment: the date itself
same_day_start(d) == d

monday_start(d) == d - Weekday(d)

\* year * 12 + month - 1
MonthIdx[d \in Int] == YearOf[d] * 12 + MonthOf[d] - 1

\* date(target_idx // 12, target_idx % 12 + 1, 1)
FirstOfMonthIdx[target_idx \in Int] == MkDate[target_idx \div 12, (target_idx % 12) + 1, 1]

\* start + (max(0, diff) // interval) * interval * unit
BucketStart[start \in Int, diff \in Int, interval \in Int, unit \in Int] ==
    start + (Max(0, diff) \div interval) * interval * unit

daily_period_start[target_date \in Int, cadence \in STRING, repeat_every \in Int, anchor_date \in Int] ==
    CASE cadence = "day" ->
           BucketStart[anchor_date, target_date - anchor_date, Max(1, repeat_every), 1]
      [] cadence = "week" ->
           BucketStart[monday_start(anchor_date),
                       (monday_start(target_date) - monday_start(anchor_date)) \div 7,
                       Max(1, repeat_every), 7]
      [] cadence = "month" ->
           FirstOfMonthIdx[BucketStart[MonthIdx[anchor_date],
                                       MonthIdx[target_date] - MonthIdx[anchor_date],
                                       Max(1, repeat_every), 1]]
      [] cadence = "year" ->
           MkDate[BucketStart[YearOf[anchor_date], YearOf[target_date] - YearOf[anchor_date],
                              Max(1, repeat_every), 1], 1, 1]
      [] OTHER -> target_date

\* the loop "while month <= 0: month += 12; year -= 1", then date(year, month, 1):
\* the loop leaves year * 12 + month as it is and ends with month in 1..12
MonthBack[year \in Int, month \in Int] ==
    MkDate[(year * 12 + month - 1) \div 12, ((year * 12 + month - 1) % 12) + 1, 1]

previous_daily_period_start[current_period_start \in Int, cadence \in STRING, repeat_every \in Int] ==
    CASE cadence = "day"  -> checked_date(current_period_start - Max(1, repeat_every))
      [] cadence = "week" -> checked_date(current_period_start - 7 * Max(1, repeat_every))
      [] cadence = "month" ->
           checked_date(MonthBack[YearOf[current_period_start],
                                  MonthOf[current_period_start] - Max(1, repeat_every)])
      [] cadence = "year" ->
           checked_date(MkDate[YearOf[current_period_start] - Max(1, repeat_every), 1, 1])
      [] OTHER -> current_period_start

habit_reset_period_start[target_date \in Int, cadence \in STRING] ==
    CASE cadence = "day"   -> target_date
      [] cadence = "week"  -> monday_start(target_date)
      [] cadence = "month" -> MkDate[YearOf[target_date], MonthOf[target_date], 1]
      [] cadence = "year"  -> MkDate[YearOf[target_date], 1, 1]
      [] OTHER -> target_date

(***************************************************************************)
(* Ledger: Decimal.quantize(CENT) under the default context, which rounds  *)
(* half to even.  The value quantized is the rational num / den cents.     *)
(***************************************************************************)
\* a rounding that takes every half up
to_cents_half_up(num, den) ==
    IF 2 * (num % den) < den THEN num \div den ELSE (num \div den) + 1

to_cents(num, den) ==
    LET q == num \div den
        r == num % den
    IN  IF 2 * r < den THEN q
        ELSE IF 2 * r > den THEN q + 1
        ELSE IF q % 2 = 0 THEN q ELSE q + 1

(***************************************************************************)
(* Data model (core/models.py).                                            *)
(***************************************************************************)
\* a null column (null=True): no date, no timestamp, no reference
Null == -1

\* a null foreign key to Task
NoTask == "none"

Users == {"alice", "bob"}

Profiles == {"pA", "pB"}

\* Profile.account
AccountOf == [p \in Profiles |-> IF p = "pA" THEN "alice" ELSE "bob"]

TaskIds == {"h1", "d1", "t1", "r1"}

\* The task was created on Thursday 2025-11-20 (created_at, auto_now_add)
CreatedDate == MkDate[2025, 11, 20]

VARIABLES
    tasks,      \* Task rows: id -> record (the ids present are DOMAIN tasks)
    profiles,   \* Profile rows: id -> [account, gold_balance]
    rules,      \* StreakBonusRule rows: task id -> set of [streak_goal, bonus_percent]
    log,        \* LogEntry rows in order of creation
    opening,    \* history: each profile's balance when it had no log entry
    completions,\* history: the successful daily completions, in order
    txn,        \* the open transactions: process -> its call, position and locked reads
    locks       \* the row locks of select_for_update: row -> the process holding it

vars == <<tasks, profiles, rules, log, opening, completions, txn, locks>>

\* Task(...) with the field defaults of the model
TaskDefaults(profile, task_type, title, gold_delta) ==
    [ profile |-> profile, task_type |-> task_type, title |-> title,
      created_at |-> CreatedDate * TicksPerDay, last_action_at |-> Null,
      total_actions_count |-> 0, gold_delta |-> gold_delta,
      current_count |-> 0, count_increment |-> 100, count_reset_cadence |-> "null",
      repeat_cadence |-> "null", repeat_every |-> 1,
      current_streak |-> 0, best_streak |-> 0, last_completion_period |-> Null,
      is_done |-> FALSE, completed_at |-> Null,
      is_repeatable |-> FALSE, is_claimed |-> FALSE, claimed_at |-> Null, claim_count |-> 0 ]

\* Task.Meta.constraints, as full_clean() validates them
TaskConstraints(t) ==
    /\ t.task_type = "todo" \/ ~t.is_done
    /\ t.task_type = "todo" \/ t.completed_at = Null
    /\ (~t.is_done /\ t.completed_at = Null) \/ (t.is_done /\ t.completed_at # Null)
    /\ t.task_type # "reward" \/ t.gold_delta < 0
    /\ t.task_type = "reward"
          \/ (~t.is_repeatable /\ ~t.is_claimed /\ t.claim_count = 0 /\ t.claimed_at = Null)
    /\ t.task_type # "reward" \/ ~t.is_claimed \/ t.claimed_at # Null
    /\ t.task_type # "daily"
          \/ (t.repeat_cadence \in {"day", "week", "month", "year"} /\ t.repeat_every >= 1)
    /\ t.task_type = "daily"
          \/ (t.repeat_cadence = "null" /\ t.current_streak = 0 /\ t.best_streak = 0
                /\ t.last_completion_period = Null)
    /\ t.task_type = "habit"
          \/ (t.current_count = 0 /\ t.count_increment = 100 /\ t.count_reset_cadence = "null")

\* LogEntry.clean()
LogClean(e, tt) ==
    /\ e.task = NoTask \/ tt[e.task].profile = e.profile
    /\ e.reward = NoTask \/ (tt[e.reward].profile = e.profile /\ tt[e.reward].task_type = "reward")

\* The digits of a Decimal column of the model.  The columns are declared with
\* max_digits = 12, two of them decimal places; the model keeps fewer so that the
\* largest amount fits the model checker's integers.
MaxDigits == 6

\* the least number of cents a Decimal column does not hold: 10 ^ max_digits
DecimalLimit == 10 ^ MaxDigits

\* DecimalValidator of DecimalField(max_digits, decimal_places=2) on an amount in cents
DecimalClean(v) == -DecimalLimit < v /\ v < DecimalLimit

\* Task.full_clean(): the field validators the actions can trip, then the constraints
TaskFullClean(t) ==
    /\ t.title # <<>>
    /\ DecimalClean(t.gold_delta)
    /\ DecimalClean(t.current_count)
    /\ DecimalClean(t.count_increment)
    /\ t.repeat_every >= 1
    /\ TaskConstraints(t)

\* Profile.full_clean()
ProfileFullClean(p) == DecimalClean(p.gold_balance)

\* LogEntry.full_clean(): the field validators, then clean()
LogFullClean(e, tt) ==
    /\ DecimalClean(e.gold_delta)
    /\ DecimalClean(e.user_gold)
    /\ e.count_delta = Null \/ DecimalClean(e.count_delta)
    /\ LogClean(e, tt)

\* LogEntry(...) without its two timestamps, which nothing reads
LogEntry(profile, type, task, reward, gold_delta, user_gold, count_delta, duration, title) ==
    [ profile |-> profile, type |-> type, task |-> task, reward |-> reward,
      gold_delta |-> gold_delta, user_gold |-> user_gold, count_delta |-> count_delta,
      duration |-> duration, title_snapshot |-> title ]

(***************************************************************************)
(* Task actions (core/services/task_actions.py).  Each action is a         *)
(* function of the rows it reads under lock; its result names the error    *)
(* raised ("" for none), the rows the transaction writes, and how many of  *)
(* them were saved when the error was raised.                              *)
(***************************************************************************)
Rejected(error, t, p) ==
    [error |-> error, task |-> t, profile |-> p, log |-> <<>>, period |-> Null, saved |-> 0]

\* a check of the profile's account alone
profile_owner_only(t, pid, p, user) == IF p.account # user THEN "ownership" ELSE ""

\* _assert_ownership: "" when the task is the profile's and the profile the user's
assert_ownership(t, pid, p, user) ==
    IF t.profile # pid THEN "ownership"
    ELSE IF p.account # user THEN "ownership"
    ELSE ""

\* _save_task_profile_log: full_clean() and save() of task, profile and log
save_task_profile_log(t, p, entry, period, tt) ==
    IF ~TaskFullClean(t)
    THEN [error |-> "validation", task |-> t, profile |-> p, log |-> <<>>, period |-> period,
          saved |-> 0]
    ELSE IF ~ProfileFullClean(p)
    THEN [error |-> "validation", task |-> t, profile |-> p, log |-> <<>>, period |-> period,
          saved |-> 1]
    ELSE IF ~LogFullClean(entry, tt)
    THEN [error |-> "validation", task |-> t, profile |-> p, log |-> <<>>, period |-> period,
          saved |-> 2]
    ELSE [error |-> "", task |-> t, profile |-> p, log |-> <<entry>>, period |-> period,
          saved |-> 3]

\* `by` is a Decimal given in thousandths, or Null
ByScale == 10

\* the writes of habit_increment once the count delta and the gold are known
habit_increment_save(tid, t, pid, p, ts, delta_count, gold_delta, tt) ==
    save_task_profile_log(
        [t EXCEPT !.current_count = to_cents(t.current_count * ByScale + delta_count, ByScale),
                  !.total_actions_count = @ + 1,
                  !.last_action_at = ts],
        [p EXCEPT !.gold_balance = to_cents(p.gold_balance + gold_delta, 1)],
        LogEntry(pid, "habit_incremented", tid, NoTask, gold_delta,
                 to_cents(p.gold_balance + gold_delta, 1),
                 to_cents(delta_count, ByScale), Null, t.title),
        Null, tt)

\* an increment that always takes the task's own count_increment
habit_increment_by_own_step(tid, t, pid, p, user, by, ts, tt) ==
    IF assert_ownership(t, pid, p, user) # "" THEN Rejected("ownership", t, p)
    ELSE IF t.task_type # "habit" THEN Rejected("task_type", t, p)
    ELSE habit_increment_save(tid, t, pid, p, ts, t.count_increment * ByScale,
                              to_cents(t.gold_delta, 1), tt)

habit_increment(tid, t, pid, p, user, by, ts, tt) ==
    IF assert_ownership(t, pid, p, user) # "" THEN Rejected("ownership", t, p)
    ELSE IF t.task_type # "habit" THEN Rejected("task_type", t, p)
    ELSE habit_increment_save(tid, t, pid, p, ts,
                              IF by # Null THEN by ELSE t.count_increment * ByScale,
                              to_cents(t.gold_delta, 1), tt)

\* task.repeat_cadence or Task.Cadence.DAY
CadenceOf(t) == IF t.repeat_cadence \in {"null", ""} THEN "day" ELSE t.repeat_cadence

\* _get_daily_period_start_for_task: the anchor is the local date of created_at
get_daily_period_start_for_task(t, target_date) ==
    daily_period_start[target_date, CadenceOf(t), t.repeat_every, local_date_from_dt(t.created_at)]

\* a previous period that is one unit of the cadence back, whatever repeat_every
one_unit_back(t, period) == previous_daily_period_start[period, CadenceOf(t), 1]

\* previous_daily_period_start with the task's cadence and repeat_every
previous_period_of(t, period) == previous_daily_period_start[period, CadenceOf(t), t.repeat_every]

\* bonus_percent is stored with two places: hundredths of a percent
PercentScale == 10000

MaxOf(S) == CHOOSE x \in S : \A y \in S : y <= x

\* the bonus of the qualifying rule of the highest goal, 0 when there is none
bonus_of_highest_goal(rs, streak) ==
    IF {r \in rs : r.streak_goal <= streak} = {} THEN 0
    ELSE (CHOOSE r \in {q \in rs : q.streak_goal <= streak} :
             \A q \in rs : q.streak_goal <= streak => q.streak_goal <= r.streak_goal).bonus_percent

\* streak_bonus_rules.filter(streak_goal__lte=streak).order_by("-bonus_percent").first(),
\* and 0 when there is none
max_bonus_percent(rs, streak) ==
    IF {r \in rs : r.streak_goal <= streak} = {} THEN 0
    ELSE MaxOf({r.bonus_percent : r \in {q \in rs : q.streak_goal <= streak}})

\* final_gold: base_gold * (1 + bonus_percent / 100), to cents
final_gold_of(base_gold, bonus_percent) ==
    to_cents(base_gold * (PercentScale + bonus_percent), PercentScale)

\* a streak that every completion starts afresh
restart_streak(t, period) == 1

\* the streak after a completion of `period`
next_streak(t, period) ==
    IF t.last_completion_period = previous_period_of(t, period) THEN t.current_streak + 1 ELSE 1

\* a gate that lets every completion pass
never_completed(t, period) == FALSE

\* the idempotency gate of daily_complete
already_completed(t, period) == t.last_completion_period = period

\* the writes of daily_complete once the gold is known; t2 is the task as updated
daily_complete_save(tid, t2, pid, p, period, final_gold, tt) ==
    save_task_profile_log(
        t2,
        [p EXCEPT !.gold_balance = to_cents(p.gold_balance + final_gold, 1)],
        LogEntry(pid, "daily_completed", tid, NoTask, final_gold,
                 to_cents(p.gold_balance + final_gold, 1), Null, Null, t2.title),
        period, tt)

\* daily_complete from the streak on
daily_complete_streak(tid, t, pid, p, ts, period, streak, rs, tt) ==
    daily_complete_save(
        tid,
        [t EXCEPT !.current_streak = streak,
                  !.last_completion_period = period,
                  !.best_streak = Max(t.best_streak, streak),
                  !.last_action_at = ts,
                  !.total_actions_count = @ + 1],
        pid, p, period,
        final_gold_of(to_cents(t.gold_delta, 1), max_bonus_percent(rs, streak)),
        tt)

\* daily_complete from the resolved period on
daily_complete_period(tid, t, pid, p, ts, period, rs, tt) ==
    IF already_completed(t, period)
    THEN [Rejected("already_completed", t, p) EXCEPT !.period = period]
    ELSE IF previous_period_of(t, period) = DateError
    THEN [Rejected("value_error", t, p) EXCEPT !.period = period]
    ELSE daily_complete_streak(tid, t, pid, p, ts, period, next_streak(t, period), rs, tt)

daily_complete(tid, t, pid, p, user, ts, completion_period, rs, tt) ==
    IF assert_ownership(t, pid, p, user) # "" THEN Rejected("ownership", t, p)
    ELSE IF t.task_type # "daily" THEN Rejected("task_type", t, p)
    ELSE daily_complete_period(
             tid, t, pid, p, ts,
             get_daily_period_start_for_task(
                 t, IF completion_period # Null THEN completion_period ELSE local_date_from_dt(ts)),
             rs, tt)

\* the writes of todo_complete
todo_complete_save(tid, t, pid, p, ts, gold_delta, tt) ==
    save_task_profile_log(
        [t EXCEPT !.is_done = TRUE, !.completed_at = ts, !.last_action_at = ts,
                  !.total_actions_count = @ + 1],
        [p EXCEPT !.gold_balance = to_cents(p.gold_balance + gold_delta, 1)],
        LogEntry(pid, "todo_completed", tid, NoTask, gold_delta,
                 to_cents(p.gold_balance + gold_delta, 1), Null, Null, t.title),
        Null, tt)

\* a guard that takes no todo for done
todo_never_done(t) == FALSE

\* the guard of todo_complete: if task.is_done
todo_done(t) == t.is_done

\* a completion that takes a task of any type
todo_complete_any_type(tid, t, pid, p, user, ts, tt) ==
    IF assert_ownership(t, pid, p, user) # "" THEN Rejected("ownership", t, p)
    ELSE IF todo_done(t) THEN Rejected("already_completed", t, p)
    ELSE todo_complete_save(tid, t, pid, p, ts, to_cents(t.gold_delta, 1), tt)

todo_complete(tid, t, pid, p, user, ts, tt) ==
    IF assert_ownership(t, pid, p, user) # "" THEN Rejected("ownership", t, p)
    ELSE IF t.task_type # "todo" THEN Rejected("task_type", t, p)
    ELSE IF todo_done(t) THEN Rejected("already_completed", t, p)
    ELSE todo_complete_save(tid, t, pid, p, ts, to_cents(t.gold_delta, 1), tt)

\* a guard that finds every balance sufficient
funds_unchecked(t, p) == FALSE

\* the funds guard of reward_claim
insufficient_funds(t, p) == to_cents(p.gold_balance + t.gold_delta, 1) < 0

\* a guard that takes no reward for claimed
never_claimed(t) == FALSE

\* the repeatability guard of reward_claim
already_claimed(t) == ~t.is_repeatable /\ t.is_claimed

\* a claim whose log entry names no reward
reward_claim_unlinked(tid, t, pid, p, ts, tt) ==
    save_task_profile_log(
        [t EXCEPT !.claim_count = @ + 1, !.is_claimed = TRUE, !.claimed_at = ts,
                  !.last_action_at = ts, !.total_actions_count = @ + 1],
        [p EXCEPT !.gold_balance = to_cents(p.gold_balance + t.gold_delta, 1)],
        LogEntry(pid, "reward_claimed", tid, NoTask, to_cents(t.gold_delta, 1),
                 to_cents(p.gold_balance + t.gold_delta, 1), Null, Null, t.title),
        Null, tt)

\* a claim that leaves claim_count as it is
reward_claim_uncounted(tid, t, pid, p, ts, tt) ==
    save_task_profile_log(
        [t EXCEPT !.is_claimed = TRUE, !.claimed_at = ts,
                  !.last_action_at = ts, !.total_actions_count = @ + 1],
        [p EXCEPT !.gold_balance = to_cents(p.gold_balance + t.gold_delta, 1)],
        LogEntry(pid, "reward_claimed", tid, tid, to_cents(t.gold_delta, 1),
                 to_cents(p.gold_balance + t.gold_delta, 1), Null, Null, t.title),
        Null, tt)

\* the writes of reward_claim
reward_claim_save(tid, t, pid, p, ts, tt) ==
    save_task_profile_log(
        [t EXCEPT !.claim_count = @ + 1, !.is_claimed = TRUE, !.claimed_at = ts,
                  !.last_action_at = ts, !.total_actions_count = @ + 1],
        [p EXCEPT !.gold_balance = to_cents(p.gold_balance + t.gold_delta, 1)],
        LogEntry(pid, "reward_claimed", tid, tid, to_cents(t.gold_delta, 1),
                 to_cents(p.gold_balance + t.gold_delta, 1), Null, Null, t.title),
        Null, tt)

reward_claim(tid, t, pid, p, user, ts, tt) ==
    IF assert_ownership(t, pid, p, user) # "" THEN Rejected("ownership", t, p)
    ELSE IF t.task_type # "reward" THEN Rejected("task_type", t, p)
    ELSE IF t.gold_delta >= 0 THEN Rejected("reward_cost", t, p)
    ELSE IF already_claimed(t) THEN Rejected("already_claimed", t, p)
    ELSE IF insufficient_funds(t, p) THEN Rejected("insufficient_funds", t, p)
    ELSE reward_claim_save(tid, t, pid, p, ts, tt)

\* str.strip() on a title given as a sequence of characters
RECURSIVE LStrip(_)
LStrip(s) == IF s # <<>> /\ Head(s) = " " THEN LStrip(Tail(s)) ELSE s

RECURSIVE RStrip(_)
RStrip(s) == IF s # <<>> /\ s[Len(s)] = " " THEN RStrip(SubSeq(s, 1, Len(s) - 1)) ELSE s

Strip(s) == RStrip(LStrip(s))

\* the append of log_activity_duration
activity_save(p, entry, tt) ==
    IF LogFullClean(entry, tt)
    THEN [error |-> "", task |-> Null, profile |-> p, log |-> <<entry>>, period |-> Null,
          saved |-> 1]
    ELSE Rejected("validation", Null, p)

\* an append that takes any duration
log_activity_any_duration(pid, p, user, duration, title, task, reward, tt) ==
    IF p.account # user THEN Rejected("ownership", Null, p)
    ELSE IF title = <<>> \/ Strip(title) = <<>> THEN Rejected("title", Null, p)
    ELSE IF task # NoTask /\ tt[task].profile # pid THEN Rejected("task_id", Null, p)
    ELSE IF reward # NoTask /\ tt[reward].profile # pid THEN Rejected("reward_id", Null, p)
    ELSE IF reward # NoTask /\ tt[reward].task_type # "reward" THEN Rejected("reward_id", Null, p)
    ELSE activity_save(p, LogEntry(pid, "activity_duration", task, reward, 0,
                                   to_cents(p.gold_balance, 1), Null, duration, Strip(title)), tt)

\* duration is a number of seconds or Null; task and reward are ids or NoTask
log_activity_duration(pid, p, user, duration, title, task, reward, tt) ==
    IF p.account # user THEN Rejected("ownership", Null, p)
    ELSE IF duration = Null \/ duration <= 0 THEN Rejected("duration", Null, p)
    ELSE IF title = <<>> \/ Strip(title) = <<>> THEN Rejected("title", Null, p)
    ELSE IF task # NoTask /\ tt[task].profile # pid THEN Rejected("task_id", Null, p)
    ELSE IF reward # NoTask /\ tt[reward].profile # pid THEN Rejected("reward_id", Null, p)
    ELSE IF reward # NoTask /\ tt[reward].task_type # "reward" THEN Rejected("reward_id", Null, p)
    ELSE activity_save(p, LogEntry(pid, "activity_duration", task, reward, 0,
                                   to_cents(p.gold_balance, 1), Null, duration, Strip(title)), tt)

(***************************************************************************)
(* Period refresh and the new-day workflow.                                *)
(***************************************************************************)
\* a rollover that takes one completion off the streak
streak_lowered(t, today) ==
    IF t.last_completion_period = Null THEN t
    ELSE IF /\ t.last_completion_period
                 < previous_period_of(t, get_daily_period_start_for_task(t, today))
            /\ t.current_streak # 0
         THEN [t EXCEPT !.current_streak = @ - 1]
         ELSE t

\* a rollover that also resets a daily last completed in the previous period
refresh_daily_eager(t, today) ==
    IF t.last_completion_period = Null THEN t
    ELSE IF /\ t.last_completion_period < get_daily_period_start_for_task(t, today)
            /\ t.current_streak # 0
         THEN [t EXCEPT !.current_streak = 0]
         ELSE t

\* the daily loop body of refresh_profile_period_state
refresh_daily(t, today) ==
    IF t.last_completion_period = Null THEN t
    ELSE IF /\ t.last_completion_period
                 < previous_period_of(t, get_daily_period_start_for_task(t, today))
            /\ t.current_streak # 0
         THEN [t EXCEPT !.current_streak = 0]
         ELSE t

\* a reset that takes every cadence for day
apply_habit_reset_by_day(t, today) ==
    IF t.count_reset_cadence \in {"null", "", "never"} THEN t
    ELSE IF t.current_count = 0 THEN t
    ELSE IF local_date_from_dt(IF t.last_action_at # Null THEN t.last_action_at ELSE t.created_at)
              >= today
         THEN t
         ELSE [t EXCEPT !.current_count = 0]

\* _apply_habit_reset_if_needed, returning the habit as it is left
apply_habit_reset_if_needed(t, today) ==
    IF t.count_reset_cadence \in {"null", "", "never"} THEN t
    ELSE IF t.current_count = 0 THEN t
    ELSE IF habit_reset_period_start[
                local_date_from_dt(IF t.last_action_at # Null THEN t.last_action_at ELSE t.created_at),
                t.count_reset_cadence]
              >= habit_reset_period_start[today, t.count_reset_cadence]
         THEN t
         ELSE [t EXCEPT !.current_count = 0]

\* the rows refresh_profile_period_state leaves: each daily, then each habit, of the profile
refreshed_tasks(tt, pid, today) ==
    [i \in DOMAIN tt |->
       IF tt[i].profile # pid THEN tt[i]
       ELSE IF tt[i].task_type = "daily" THEN refresh_daily(tt[i], today)
       ELSE IF tt[i].task_type = "habit" THEN apply_habit_reset_if_needed(tt[i], today)
       ELSE tt[i]]

\* the outcome of refresh given the rows tt2 it would leave (full_clean before each save)
refresh_outcome(tt, tt2, p, user) ==
    IF p.account # user THEN [error |-> "ownership", tasks |-> tt, updated |-> 0]
    ELSE IF \E i \in DOMAIN tt : tt2[i] # tt[i] /\ ~TaskConstraints(tt2[i])
         THEN [error |-> "validation", tasks |-> tt, updated |-> 0]
    ELSE [error |-> "", tasks |-> tt2, updated |-> 0]

\* the daily loop of the refresh comes to a daily whose previous period is no date
refresh_raises(tt, pid, today) ==
    \E i \in DOMAIN tt :
       /\ tt[i].profile = pid
       /\ tt[i].task_type = "daily"
       /\ tt[i].last_completion_period # Null
       /\ previous_period_of(tt[i], get_daily_period_start_for_task(tt[i], today)) = DateError

refresh_profile_period_state(tt, pid, p, user, ts) ==
    IF p.account = user /\ refresh_raises(tt, pid, local_date_from_dt(ts))
    THEN [error |-> "value_error", tasks |-> tt, updated |-> 0]
    ELSE refresh_outcome(tt, refreshed_tasks(tt, pid, local_date_from_dt(ts)), p, user)

\* whether the preview lists the daily t, given the current period
uncompleted_in(t, current_period) ==
    /\ t.last_completion_period # current_period
    /\ current_period # previous_period_of(t, current_period)
    /\ t.last_completion_period # previous_period_of(t, current_period)

\* the entry of the preview for the daily i
preview_entry(i, t, current_period) ==
    [id |-> i, title |-> t.title,
     previous_period_start |-> previous_period_of(t, current_period),
     last_completion_period |-> t.last_completion_period,
     repeat_cadence |-> t.repeat_cadence, repeat_every |-> t.repeat_every]

\* get_uncompleted_dailies_from_previous_period: the error raised and the entries
\* listed (a set: the order, by title, is left out)
get_uncompleted_dailies_from_previous_period(tt, pid, p, user, ts) ==
    IF p.account # user THEN [error |-> "ownership", results |-> {}]
    ELSE IF \E j \in DOMAIN tt :
              /\ tt[j].profile = pid
              /\ tt[j].task_type = "daily"
              /\ previous_period_of(tt[j], get_daily_period_start_for_task(
                                               tt[j], local_date_from_dt(ts))) = DateError
    THEN [error |-> "value_error", results |-> {}]
    ELSE [error |-> "",
          results |->
            {preview_entry(i, tt[i], get_daily_period_start_for_task(tt[i], local_date_from_dt(ts))) :
               i \in {j \in DOMAIN tt :
                        /\ tt[j].profile = pid
                        /\ tt[j].task_type = "daily"
                        /\ uncompleted_in(tt[j], get_daily_period_start_for_task(
                                                     tt[j], local_date_from_dt(ts)))}}]

\* a backfill that skips only a task completed for the current period
needs_backfill_unless_current(t, current_period) ==
    t.last_completion_period # current_period

\* whether start_new_day backfills the daily t, given the current period: it skips a
\* task already completed for the current or for the previous period
needs_backfill_in(t, current_period) ==
    /\ t.last_completion_period # current_period
    /\ t.last_completion_period # previous_period_of(t, current_period)

needs_backfill(t, today) == needs_backfill_in(t, get_daily_period_start_for_task(t, today))

\* a backfill that starts every streak again
backfill_streak_restarted(t, previous_period) == 1

\* the streak start_new_day gives a daily it backfills for previous_period
backfill_streak(t, previous_period) ==
    IF t.last_completion_period # Null
    THEN (IF t.last_completion_period = previous_period_of(t, previous_period)
          THEN t.current_streak + 1 ELSE 1)
    ELSE 1

\* a backfill that counts as an action of the task
backfill_counted(t, previous_period, streak) ==
    [t EXCEPT !.current_streak = streak,
              !.best_streak = Max(t.best_streak, streak),
              !.last_completion_period = previous_period,
              !.total_actions_count = @ + 1]

\* a backfill that leaves best_streak as it is
backfill_best_kept(t, previous_period, streak) ==
    [t EXCEPT !.current_streak = streak,
              !.last_completion_period = previous_period]

\* the writes of start_new_day to a daily it does not skip
backfill_write(t, previous_period, streak) ==
    [t EXCEPT !.current_streak = streak,
              !.best_streak = Max(t.best_streak, streak),
              !.last_completion_period = previous_period]

backfill_to(t, previous_period) ==
    backfill_write(t, previous_period, backfill_streak(t, previous_period))

\* the loop body of start_new_day for a daily it does not skip
backfill_daily(t, today) ==
    backfill_to(t, previous_period_of(t, get_daily_period_start_for_task(t, today)))

\* the dailies start_new_day updates
backfilled_ids(tt, pid, checked_daily_ids, today) ==
    {i \in DOMAIN tt : /\ tt[i].profile = pid
                       /\ tt[i].task_type = "daily"
                       /\ i \in checked_daily_ids
                       /\ needs_backfill(tt[i], today)}

\* the rows after the loop of start_new_day
backfilled_tasks(tt, dailies, today) ==
    [i \in DOMAIN tt |-> IF i \in dailies THEN backfill_daily(tt[i], today) ELSE tt[i]]

\* the outcome of start_new_day given the dailies it updates, the rows tt2 after its
\* loop and the outcome r of the trailing refresh
start_new_day_outcome(tt, tt2, dailies, r, p, user) ==
    IF p.account # user THEN [error |-> "ownership", tasks |-> tt, updated |-> 0]
    ELSE IF \E i \in dailies : ~TaskConstraints(tt2[i])
         THEN [error |-> "validation", tasks |-> tt, updated |-> 0]
    ELSE IF r.error # "" THEN [error |-> r.error, tasks |-> tt, updated |-> 0]
    ELSE [error |-> "", tasks |-> r.tasks, updated |-> Cardinality(dailies)]

start_new_day_loop(tt, tt2, dailies, pid, p, user, ts) ==
    start_new_day_outcome(tt, tt2, dailies, refresh_profile_period_state(tt2, pid, p, user, ts),
                          p, user)

start_new_day_on(tt, dailies, pid, p, user, ts) ==
    start_new_day_loop(tt, backfilled_tasks(tt, dailies, local_date_from_dt(ts)),
                       dailies, pid, p, user, ts)

\* the loop of start_new_day comes to a checked daily whose previous period, or the
\* period before that when it is asked for, is no date
new_day_raises(tt, pid, checked_daily_ids, today) ==
    \E i \in DOMAIN tt :
       /\ tt[i].profile = pid
       /\ tt[i].task_type = "daily"
       /\ i \in checked_daily_ids
       /\ \/ previous_period_of(tt[i], get_daily_period_start_for_task(tt[i], today)) = DateError
          \/ /\ needs_backfill(tt[i], today)
             /\ tt[i].last_completion_period # Null
             /\ previous_period_of(
                    tt[i], previous_period_of(tt[i], get_daily_period_start_for_task(tt[i], today)))
                  = DateError

start_new_day(tt, pid, p, user, checked_daily_ids, ts) ==
    IF p.account = user /\ new_day_raises(tt, pid, checked_daily_ids, local_date_from_dt(ts))
    THEN [error |-> "value_error", tasks |-> tt, updated |-> 0]
    ELSE start_new_day_on(tt, backfilled_ids(tt, pid, checked_daily_ids, local_date_from_dt(ts)),
                          pid, p, user, ts)

(***************************************************************************)
(* The operations as transitions.  Each runs in transaction.atomic: an     *)
(* error rolls everything back, so a rejected call leaves no trace.        *)
(***************************************************************************)
\* a commit that writes the task and the log entry and leaves the profile row as it was
CommitWithoutProfile(tid, pid, r) ==
    IF r.error = ""
    THEN /\ tasks' = [tasks EXCEPT ![tid] = r.task]
         /\ log' = log \o r.log
         /\ UNCHANGED profiles
    ELSE UNCHANGED <<tasks, profiles, log>>

\* commit of _save_task_profile_log's writes, or rollback
Commit(tid, pid, r) ==
    IF r.error = ""
    THEN /\ tasks' = [tasks EXCEPT ![tid] = r.task]
         /\ profiles' = [profiles EXCEPT ![pid] = r.profile]
         /\ log' = log \o r.log
    ELSE UNCHANGED <<tasks, profiles, log>>

\* commit of the task rows refresh or start_new_day leaves, or rollback
CommitTasks(r) ==
    IF r.error = ""
    THEN tasks' = r.tasks
    ELSE UNCHANGED tasks

HabitIncrement(tid, pid, user, by, ts) ==
    /\ Commit(tid, pid,
              habit_increment(tid, tasks[tid], pid, profiles[pid], user, by, ts, tasks))
    /\ UNCHANGED <<rules, opening, completions, txn, locks>>

\* history: what the completion r of task t (as it was) did
Completed(tid, t, r) ==
    IF r.error = ""
    THEN completions' = Append(completions,
                               [task |-> tid, period |-> r.period,
                                period_before |-> t.last_completion_period,
                                streak_before |-> t.current_streak,
                                streak |-> r.task.current_streak,
                                gold_delta |-> r.log[1].gold_delta])
    ELSE UNCHANGED completions

DailyCommit(tid, pid, r) ==
    /\ Commit(tid, pid, r)
    /\ Completed(tid, tasks[tid], r)

DailyComplete(tid, pid, user, ts, completion_period) ==
    /\ DailyCommit(tid, pid,
                   daily_complete(tid, tasks[tid], pid, profiles[pid], user, ts,
                                  completion_period, rules[tid], tasks))
    /\ UNCHANGED <<rules, opening, txn, locks>>

TodoComplete(tid, pid, user, ts) ==
    /\ Commit(tid, pid,
              todo_complete(tid, tasks[tid], pid, profiles[pid], user, ts, tasks))
    /\ UNCHANGED <<rules, opening, completions, txn, locks>>

RewardClaim(tid, pid, user, ts) ==
    /\ Commit(tid, pid,
              reward_claim(tid, tasks[tid], pid, profiles[pid], user, ts, tasks))
    /\ UNCHANGED <<rules, opening, completions, txn, locks>>

\* commit of the log_activity_duration append, or rollback
CommitLog(r) ==
    IF r.error = ""
    THEN log' = log \o r.log
    ELSE UNCHANGED log

LogActivityDuration(pid, user, duration, title, task, reward) ==
    /\ CommitLog(log_activity_duration(pid, profiles[pid], user, duration, title, task, reward, tasks))
    /\ UNCHANGED <<tasks, profiles, rules, opening, completions, txn, locks>>

RefreshProfilePeriodState(pid, user, ts) ==
    /\ CommitTasks(refresh_profile_period_state(tasks, pid, profiles[pid], user, ts))
    /\ UNCHANGED <<profiles, rules, log, opening, completions, txn, locks>>

StartNewDay(pid, user, checked_daily_ids, ts) ==
    /\ CommitTasks(start_new_day(tasks, pid, profiles[pid], user, checked_daily_ids, ts))
    /\ UNCHANGED <<profiles, rules, log, opening, completions, txn, locks>>

(***************************************************************************)
(* The four task actions as concurrent transactions.  A transaction locks  *)
(* and reads the profile row, then the task row (_lock_task_and_profile),  *)
(* computes from the rows it read, and writes and releases at commit.      *)
(***************************************************************************)
\* the number of database connections running transactions
NumProcs == 2

Procs == 1..NumProcs

\* a connection with no transaction open
IdleTxn == [pc |-> "idle", op |-> "none", task |-> NoTask, profile |-> "none", user |-> "none",
            by |-> Null, ts |-> Null, profile_row |-> <<>>, task_row |-> <<>>, before |-> <<>>,
            rows |-> <<>>]

\* a read that waits for no lock
row_unguarded(holders, proc) == TRUE

\* a lock that a second transaction may take while a first holds it
row_shared(holders, proc) == Cardinality(holders \ {proc}) <= 1

\* the connection that sends the refresh
Refresher == 1

\* a lock the refresh does not wait for
row_read_by_refresh(holders, proc) == proc = Refresher \/ holders \subseteq {proc}

\* SELECT ... FOR UPDATE waits while another transaction holds the row
row_available(holders, proc) == holders \subseteq {proc}

\* @transaction.atomic: the call opens a transaction
Begin(proc, op, tid, pid, user, by, ts) ==
    /\ txn[proc].pc = "idle"
    /\ txn' = [txn EXCEPT ![proc] = [IdleTxn EXCEPT !.pc = "begun", !.op = op, !.task = tid,
                                                     !.profile = pid, !.user = user,
                                                     !.by = by, !.ts = ts]]
    /\ UNCHANGED <<tasks, profiles, rules, log, opening, completions, locks>>

\* Profile.objects.select_for_update().get(id=profile_id)
LockProfile(proc) ==
    /\ txn[proc].pc = "begun"
    /\ row_available(locks[txn[proc].profile], proc)
    /\ locks' = [locks EXCEPT ![txn[proc].profile] = @ \cup {proc}]
    /\ txn' = [txn EXCEPT ![proc].pc = "profile_locked",
                          ![proc].profile_row = <<profiles[txn[proc].profile]>>,
                          ![proc].before = <<[tasks |-> tasks, profiles |-> profiles, log |-> log]>>]
    /\ UNCHANGED <<tasks, profiles, rules, log, opening, completions>>

\* Task.objects.select_for_update().get(id=task_id)
LockTask(proc) ==
    /\ txn[proc].pc = "profile_locked"
    /\ row_available(locks[txn[proc].task], proc)
    /\ locks' = [locks EXCEPT ![txn[proc].task] = @ \cup {proc}]
    /\ txn' = [txn EXCEPT ![proc].pc = "locked",
                          ![proc].task_row = <<tasks[txn[proc].task]>>]
    /\ UNCHANGED <<tasks, profiles, rules, log, opening, completions>>

\* the body of the action of transaction x, on the rows it read under lock
run(x) ==
    CASE x.op = "habit_increment" ->
           habit_increment(x.task, x.task_row[1], x.profile, x.profile_row[1], x.user, x.by, x.ts, tasks)
      [] x.op = "daily_complete" ->
           daily_complete(x.task, x.task_row[1], x.profile, x.profile_row[1], x.user, x.ts, Null,
                          rules[x.task], tasks)
      [] x.op = "todo_complete" ->
           todo_complete(x.task, x.task_row[1], x.profile, x.profile_row[1], x.user, x.ts, tasks)
      [] x.op = "reward_claim" ->
           reward_claim(x.task, x.task_row[1], x.profile, x.profile_row[1], x.user, x.ts, tasks)

\* the end of transaction x with outcome r: commit or rollback, and the locks released
FinishWith(proc, x, r) ==
    /\ Commit(x.task, x.profile, r)
    /\ IF x.op = "daily_complete" THEN Completed(x.task, x.task_row[1], r)
                                  ELSE UNCHANGED completions
    /\ locks' = [row \in DOMAIN locks |-> locks[row] \ {proc}]
    /\ txn' = [txn EXCEPT ![proc] = IdleTxn]
    /\ UNCHANGED <<rules, opening>>

Finish(proc) ==
    /\ txn[proc].pc = "locked"
    /\ FinishWith(proc, txn[proc], run(txn[proc]))

(***************************************************************************)
(* The same transactions with _save_task_profile_log taken one save at a   *)
(* time.  The rows a transaction has saved stay behind its row locks until *)
(* it ends; an error raised before the end rolls them back.                *)
(***************************************************************************)
\* a rollback that leaves what was written
writes_kept(written, before) == written

\* @transaction.atomic on an exception: a row is again what it was before the transaction
rolled_back(written, before) == before

\* the saves of _save_task_profile_log a transaction has made, by its position
saved_at(pc) ==
    CASE pc = "task_saved" -> 1
      [] pc = "profile_saved" -> 2
      [] pc = "log_saved" -> 3
      [] OTHER -> 0

\* task.full_clean(); task.save(...)
SaveTask(proc) ==
    /\ txn[proc].pc = "locked"
    /\ run(txn[proc]).saved >= 1
    /\ tasks' = [tasks EXCEPT ![txn[proc].task] = run(txn[proc]).task]
    /\ txn' = [txn EXCEPT ![proc].pc = "task_saved"]
    /\ UNCHANGED <<profiles, rules, log, opening, completions, locks>>

\* profile.full_clean(); profile.save(...)
SaveProfile(proc) ==
    /\ txn[proc].pc = "task_saved"
    /\ run(txn[proc]).saved >= 2
    /\ profiles' = [profiles EXCEPT ![txn[proc].profile] = run(txn[proc]).profile]
    /\ txn' = [txn EXCEPT ![proc].pc = "profile_saved"]
    /\ UNCHANGED <<tasks, rules, log, opening, completions, locks>>

\* log.full_clean(); log.save()
SaveLog(proc) ==
    /\ txn[proc].pc = "profile_saved"
    /\ run(txn[proc]).saved >= 3
    /\ log' = log \o run(txn[proc]).log
    /\ txn' = [txn EXCEPT ![proc].pc = "log_saved"]
    /\ UNCHANGED <<tasks, profiles, rules, opening, completions, locks>>

\* the end of a transaction: its locks released, its connection idle
EndTxn(proc) ==
    /\ locks' = [row \in DOMAIN locks |-> locks[row] \ {proc}]
    /\ txn' = [txn EXCEPT ![proc] = IdleTxn]

\* a ValidationError leaves the atomic block of transaction x: rollback
RaiseIn(proc, x) ==
    /\ tasks' = [tasks EXCEPT ![x.task] = rolled_back(tasks[x.task], x.task_row[1])]
    /\ profiles' = [profiles EXCEPT ![x.profile] = rolled_back(profiles[x.profile], x.profile_row[1])]
    /\ EndTxn(proc)
    /\ UNCHANGED <<rules, log, opening, completions>>

\* the action raises: a guard before the first save, or a full_clean() between the saves
Raise(proc) ==
    /\ txn[proc].pc \in {"locked", "task_saved", "profile_saved"}
    /\ run(txn[proc]).error # ""
    /\ run(txn[proc]).saved = saved_at(txn[proc].pc)
    /\ RaiseIn(proc, txn[proc])

\* the atomic block is left without an exception: commit
CommitTxn(proc) ==
    /\ txn[proc].pc = "log_saved"
    /\ IF txn[proc].op = "daily_complete"
       THEN Completed(txn[proc].task, txn[proc].task_row[1], run(txn[proc]))
       ELSE UNCHANGED completions
    /\ EndTxn(proc)
    /\ UNCHANGED <<tasks, profiles, rules, log, opening>>

(***************************************************************************)
(* refresh_profile_period_state and start_new_day as transactions.  Each   *)
(* locks the profile row, then the rows of its queries, computes from the  *)
(* rows as it read them, and writes at commit the fields its saves name.   *)
(***************************************************************************)
RolloverOps == {"refresh", "start_new_day"}

\* Task.objects.filter(profile=..., task_type=...): the ids of the rows
rows_of(pid, type) == {i \in DOMAIN tasks : tasks[i].profile = pid /\ tasks[i].task_type = type}

\* the rows a transaction has read stay as read; the rows ids are read now
rows_read(rows, ids) ==
    [i \in (DOMAIN rows) \cup ids |-> IF i \in DOMAIN rows THEN rows[i] ELSE tasks[i]]

\* list(Task.objects.select_for_update().filter(...)): waits for the rows, locks and
\* reads them
LockRows(proc, ids, pc) ==
    /\ \A i \in ids : row_available(locks[i], proc)
    /\ locks' = [row \in DOMAIN locks |-> IF row \in ids THEN locks[row] \cup {proc} ELSE locks[row]]
    /\ txn' = [txn EXCEPT ![proc].pc = pc, ![proc].rows = rows_read(txn[proc].rows, ids)]
    /\ UNCHANGED <<tasks, profiles, rules, log, opening, completions>>

\* the account check of refresh and start_new_day on the profile row read under lock
owner_locked(x) == x.profile_row[1].account = x.user

\* start_new_day's query: the profile's dailies among the checked ids, which for a
\* transaction is the one id it carries
LockChecked(proc) ==
    /\ txn[proc].pc = "profile_locked"
    /\ txn[proc].op = "start_new_day"
    /\ owner_locked(txn[proc])
    /\ LockRows(proc, rows_of(txn[proc].profile, "daily") \cap {txn[proc].task}, "checked_locked")

\* the refresh's query for the dailies, in a refresh or at the end of start_new_day
LockDailies(proc) ==
    /\ \/ txn[proc].pc = "profile_locked" /\ txn[proc].op = "refresh"
       \/ txn[proc].pc = "checked_locked"
    /\ owner_locked(txn[proc])
    /\ LockRows(proc, rows_of(txn[proc].profile, "daily"), "dailies_locked")

\* the refresh's query for the habits
LockHabits(proc) ==
    /\ txn[proc].pc = "dailies_locked"
    /\ LockRows(proc, rows_of(txn[proc].profile, "habit"), "rows_locked")

\* the task rows as transaction x has them: those it read as it read them
rows_seen(x) == [i \in DOMAIN tasks |-> IF i \in DOMAIN x.rows THEN x.rows[i] ELSE tasks[i]]

\* the body of refresh or start_new_day in transaction x, on the rows it read
rollover(x) ==
    IF x.op = "refresh"
    THEN refresh_profile_period_state(rows_seen(x), x.profile, x.profile_row[1], x.user, x.ts)
    ELSE start_new_day(rows_seen(x), x.profile, x.profile_row[1], x.user, {x.task}, x.ts)

\* the row a rollover leaves of the stored row t, having read it as seen and made
\* new of it: start_new_day saves update_fields current_streak, best_streak and
\* last_completion_period of a daily it backfills, the refresh current_streak of
\* a daily it resets and current_count of a habit it resets
rollover_write(t, seen, new, backfilled) ==
    IF backfilled
    THEN [t EXCEPT !.current_streak = new.current_streak, !.best_streak = new.best_streak,
                   !.last_completion_period = new.last_completion_period]
    ELSE IF new.current_streak # seen.current_streak
    THEN [t EXCEPT !.current_streak = new.current_streak]
    ELSE IF new.current_count # seen.current_count
    THEN [t EXCEPT !.current_count = new.current_count]
    ELSE t

\* the ids start_new_day backfills in transaction x
backfilled_in(x) ==
    IF x.op = "start_new_day"
    THEN backfilled_ids(rows_seen(x), x.profile, {x.task}, local_date_from_dt(x.ts))
    ELSE {}

\* the task rows after the commit of a rollover with outcome r, or after its rollback
rollover_commit(x, r) ==
    IF r.error = ""
    THEN [i \in DOMAIN tasks |->
            rollover_write(tasks[i], rows_seen(x)[i], r.tasks[i], i \in backfilled_in(x))]
    ELSE tasks

\* a transaction that is over stays as it was sent, its locks released
EndOnce(proc) ==
    /\ locks' = [row \in DOMAIN locks |-> locks[row] \ {proc}]
    /\ txn' = [txn EXCEPT ![proc].pc = "done"]

\* the end of a refresh or start_new_day
FinishRollover(proc) ==
    /\ txn[proc].pc = "rows_locked"
    /\ tasks' = rollover_commit(txn[proc], rollover(txn[proc]))
    /\ EndOnce(proc)
    /\ UNCHANGED <<profiles, rules, log, opening, completions>>

\* the account check raises: nothing was written
RaiseRollover(proc) ==
    /\ txn[proc].pc = "profile_locked"
    /\ txn[proc].op \in RolloverOps
    /\ ~owner_locked(txn[proc])
    /\ EndOnce(proc)
    /\ UNCHANGED <<tasks, profiles, rules, log, opening, completions>>

\* the end of a task action
FinishAction(proc) ==
    /\ txn[proc].pc = "locked"
    /\ Commit(txn[proc].task, txn[proc].profile, run(txn[proc]))
    /\ IF txn[proc].op = "daily_complete"
       THEN Completed(txn[proc].task, txn[proc].task_row[1], run(txn[proc]))
       ELSE UNCHANGED completions
    /\ EndOnce(proc)
    /\ UNCHANGED <<rules, opening>>

(***************************************************************************)
(* Specification Spec: one profile with a task of each type, every         *)
(* operation one call at a time, any caller.                               *)
(***************************************************************************)
\* the most entries the log is let grow to
MaxLog == 2

\* the rules of the test of the bonus: goal 2 -> 10 %, goal 3 -> 25 %
TestRules == {[streak_goal |-> 2, bonus_percent |-> 1000], [streak_goal |-> 3, bonus_percent |-> 2500]}

\* a penalty habit, a daily, a todo and a reward of profile pA
LedgerTasks(repeatable) ==
    [i \in TaskIds |->
       CASE i = "h1" -> [TaskDefaults("pA", "habit", <<"h">>, -300)
                           EXCEPT !.count_increment = 150, !.count_reset_cadence = "day"]
         [] i = "d1" -> [TaskDefaults("pA", "daily", <<"d">>, 1000) EXCEPT !.repeat_cadence = "day"]
         [] i = "t1" -> TaskDefaults("pA", "todo", <<"t">>, 300)
         [] i = "r1" -> [TaskDefaults("pA", "reward", <<"r">>, -400) EXCEPT !.is_repeatable = repeatable]]

\* no transaction open, no row locked
Quiet ==
    /\ txn = [proc \in Procs |-> IdleTxn]
    /\ locks = [row \in Profiles \cup TaskIds |-> {}]

Init ==
    /\ \E repeatable \in BOOLEAN : tasks = LedgerTasks(repeatable)
    /\ \E g \in {0, 1000} :
          profiles = [p \in Profiles |-> [account |-> AccountOf[p],
                                           gold_balance |-> IF p = "pA" THEN g ELSE 700]]
    /\ opening = [p \in Profiles |-> profiles[p].gold_balance]
    /\ rules = [i \in TaskIds |-> IF i = "d1" THEN TestRules ELSE {}]
    /\ log = <<>>
    /\ completions = <<>>
    /\ Quiet

\* timestamps offered to Spec: the creation day (a later tick) and the next day
FirstTime == CreatedDate * TicksPerDay + 1

NextDayTime == (CreatedDate + 1) * TicksPerDay

LedgerTimes == {FirstTime, NextDayTime}

\* a caller acts on a profile: the owner, a stranger, or the owner of another profile
Callers == {<<"pA", "alice">>, <<"pA", "bob">>, <<"pB", "bob">>}

Step ==
    \/ \E tid \in DOMAIN tasks, c \in Callers :
         \/ \E by \in {Null, 2005} : HabitIncrement(tid, c[1], c[2], by, FirstTime)
         \/ \E ts \in LedgerTimes : DailyComplete(tid, c[1], c[2], ts, Null)
         \/ TodoComplete(tid, c[1], c[2], FirstTime)
         \/ RewardClaim(tid, c[1], c[2], FirstTime)
    \/ \E c \in Callers :
         \/ \E duration \in {0, 1200}, title \in {<<" ">>, <<" ", "w">>},
               ref \in {<<"t1", "r1">>, <<NoTask, "t1">>} :
               LogActivityDuration(c[1], c[2], duration, title, ref[1], ref[2])
         \/ RefreshProfilePeriodState(c[1], c[2], NextDayTime)
         \/ \E checked \in {{}, {"d1", "h1"}} : StartNewDay(c[1], c[2], checked, NextDayTime)

Next == Step /\ Len(log') <= MaxLog

Spec == Init /\ [][Next]_vars

(***************************************************************************)
(* Specification SpecConc: the task actions of Spec's profile pA as        *)
(* transactions that interleave.                                           *)
(***************************************************************************)
\* the calls offered to a connection: each action on its task by the owner, a todo
\* by a stranger
ConcCalls == {<<"habit_increment", "h1", "alice">>, <<"daily_complete", "d1", "alice">>,
              <<"todo_complete", "t1", "alice">>, <<"reward_claim", "r1", "alice">>,
              <<"todo_complete", "t1", "bob">>}

NextConc ==
    \E proc \in Procs :
       \/ /\ Len(log) < MaxLog
          /\ \E c \in ConcCalls : Begin(proc, c[1], c[2], "pA", c[3], Null, FirstTime)
       \/ LockProfile(proc)
       \/ LockTask(proc)
       \/ Finish(proc)

SpecConc == Init /\ [][NextConc]_vars

(***************************************************************************)
(* Specification SpecDaily: one daily of any cadence and interval,         *)
(* completed, refreshed and rolled over on dates of several periods taken  *)
(* in any order.                                                           *)
(***************************************************************************)
\* the largest repeat_every tried
MaxRepeat == 2

\* the number of successive periods the dates offered fall in
MaxSpan == 3

\* the most completions a run makes
MaxCompletions == 3

Cadences == {"day", "week", "month", "year"}

\* rules whose lower goal carries the larger bonus: goal 1 -> 30 %, goal 2 -> 10 %
SteepRules == {[streak_goal |-> 1, bonus_percent |-> 3000], [streak_goal |-> 2, bonus_percent |-> 1000]}

DailyTask(cadence, every) ==
    [i \in {"d1"} |-> [TaskDefaults("pA", "daily", <<"d">>, 1000)
                         EXCEPT !.repeat_cadence = cadence, !.repeat_every = every]]

InitDaily ==
    /\ \E cadence \in Cadences, every \in 1..MaxRepeat : tasks = DailyTask(cadence, every)
    /\ profiles = [p \in Profiles |-> [account |-> AccountOf[p], gold_balance |-> 0]]
    /\ opening = [p \in Profiles |-> 0]
    /\ \E rs \in {TestRules, SteepRules} : rules = [i \in TaskIds |-> IF i = "d1" THEN rs ELSE {}]
    /\ log = <<>>
    /\ completions = <<>>
    /\ Quiet

\* the day of the creation date's month-day in the k-th period after the creation's
ProbeDate(cadence, every, k) ==
    CASE cadence = "day" -> CreatedDate + k * every
      [] cadence = "week" -> CreatedDate + 7 * k * every
      [] cadence = "month" -> FirstOfMonthIdx[MonthIdx[CreatedDate] + k * every] + 19
      [] cadence = "year" -> MkDate[YearOf[CreatedDate] + k * every, 11, 20]

\* the dates offered for the daily t as completion_period
ProbeDates(t) == {ProbeDate(t.repeat_cadence, t.repeat_every, k) : k \in 0..(MaxSpan - 1)}

\* the timestamp offered for the daily t: a tick of the day after the second such date
ProbeTime(t) == (ProbeDate(t.repeat_cadence, t.repeat_every, 1) + 1) * TicksPerDay + 1

\* the timestamp offered to refresh and start_new_day: the first tick of the last such date
RolloverTime(t) == ProbeDate(t.repeat_cadence, t.repeat_every, MaxSpan - 1) * TicksPerDay

NextDaily ==
    /\ \/ DailyComplete("d1", "pA", "alice", ProbeTime(tasks["d1"]), Null)
       \/ \E d \in ProbeDates(tasks["d1"]) : DailyComplete("d1", "pA", "alice", FirstTime, d)
       \/ RefreshProfilePeriodState("pA", "alice", RolloverTime(tasks["d1"]))
       \/ StartNewDay("pA", "alice", {"d1"}, RolloverTime(tasks["d1"]))
    /\ Len(completions') <= MaxCompletions

SpecDaily == InitDaily /\ [][NextDaily]_vars

(***************************************************************************)
(* Specification SpecAtomic: the task actions as transactions that save    *)
(* row by row, one request at a time, on a profile whose balance may be    *)
(* close to the largest a Decimal column holds, so that a full_clean() can *)
(* fail between two saves; log_activity_duration and start_new_day between *)
(* them.                                                                   *)
(***************************************************************************)
InitAtomic ==
    /\ \E repeatable \in BOOLEAN : tasks = LedgerTasks(repeatable)
    /\ \E g \in {0, DecimalLimit - 501} :
          profiles = [p \in Profiles |-> [account |-> AccountOf[p],
                                           gold_balance |-> IF p = "pA" THEN g ELSE 700]]
    /\ opening = [p \in Profiles |-> profiles[p].gold_balance]
    /\ rules = [i \in TaskIds |-> IF i = "d1" THEN TestRules ELSE {}]
    /\ log = <<>>
    /\ completions = <<>>
    /\ Quiet

\* the calls offered, as <<action, task, user, by>>: each action on its task by the
\* owner, the habit also by half a count down and by more than a Decimal column
\* holds, a todo by a stranger, and a habit increment of a todo
AtomicCalls ==
    {<<"habit_increment", "h1", "alice", Null>>, <<"habit_increment", "h1", "alice", -500>>,
     <<"habit_increment", "h1", "alice", DecimalLimit * ByScale>>,
     <<"daily_complete", "d1", "alice", Null>>, <<"todo_complete", "t1", "alice", Null>>,
     <<"reward_claim", "r1", "alice", Null>>, <<"todo_complete", "t1", "bob", Null>>,
     <<"habit_increment", "t1", "alice", Null>>}

\* the calls of log_activity_duration offered, as <<user, duration, title, task>>
ActivityCalls ==
    {<<"alice", 1200, <<"w">>, "t1">>, <<"alice", 0, <<"w">>, NoTask>>,
     <<"alice", 1200, <<" ">>, NoTask>>, <<"bob", 1200, <<"w">>, NoTask>>}

NextAtomic ==
    \/ \E proc \in Procs :
          \/ /\ Quiet
             /\ Len(log) < MaxLog
             /\ \E c \in AtomicCalls : Begin(proc, c[1], c[2], "pA", c[3], c[4], FirstTime)
          \/ LockProfile(proc)
          \/ LockTask(proc)
          \/ SaveTask(proc)
          \/ SaveProfile(proc)
          \/ SaveLog(proc)
          \/ Raise(proc)
          \/ CommitTxn(proc)
    \/ /\ Quiet
       /\ Len(log) < MaxLog
       /\ \/ \E c \in ActivityCalls : LogActivityDuration("pA", c[1], c[2], c[3], c[4], NoTask)
          \/ \E user \in Users : StartNewDay("pA", user, {"d1"}, NextDayTime)

SpecAtomic == InitAtomic /\ [][NextAtomic]_vars

(***************************************************************************)
(* Specification SpecTenant: two accounts with a profile and a task of     *)
(* each type each.  Alice has incremented her habit and completed her      *)
(* daily on the creation day; from then on only bob calls, every           *)
(* operation on either profile with any task, two days later.              *)
(***************************************************************************)
\* the tasks of bob's profile pB
OtherIds == {"h2", "d2", "t2", "r2"}

\* alice's tasks after her two actions: a refresh two days on would reset both
AliceTasks ==
    [LedgerTasks(FALSE) EXCEPT
       !["h1"] = [@ EXCEPT !.current_count = 150, !.total_actions_count = 1,
                           !.last_action_at = FirstTime],
       !["d1"] = [@ EXCEPT !.current_streak = 1, !.best_streak = 1,
                           !.last_completion_period = CreatedDate,
                           !.total_actions_count = 1, !.last_action_at = FirstTime]]

\* the log entries of her two actions, from a balance of 10.00
AliceLog ==
    <<LogEntry("pA", "habit_incremented", "h1", NoTask, -300, 700, 150, Null, <<"h">>),
      LogEntry("pA", "daily_completed", "d1", NoTask, 1000, 1700, Null, Null, <<"d">>)>>

BobTasks ==
    [i \in OtherIds |->
       CASE i = "h2" -> [TaskDefaults("pB", "habit", <<"h">>, 200) EXCEPT !.count_reset_cadence = "day"]
         [] i = "d2" -> [TaskDefaults("pB", "daily", <<"d">>, 1000) EXCEPT !.repeat_cadence = "day"]
         [] i = "t2" -> TaskDefaults("pB", "todo", <<"t">>, 300)
         [] i = "r2" -> TaskDefaults("pB", "reward", <<"r">>, -400)]

InitTenant ==
    /\ tasks = [i \in TaskIds \cup OtherIds |-> IF i \in TaskIds THEN AliceTasks[i] ELSE BobTasks[i]]
    /\ \E g \in {0, 700} :
          profiles = [p \in Profiles |-> [account |-> AccountOf[p],
                                           gold_balance |-> IF p = "pA" THEN 1700 ELSE g]]
    /\ opening = [p \in Profiles |-> IF p = "pA" THEN 1000 ELSE profiles[p].gold_balance]
    /\ rules = [i \in TaskIds \cup OtherIds |-> IF i \in {"d1", "d2"} THEN TestRules ELSE {}]
    /\ log = AliceLog
    /\ completions = <<>>
    /\ Quiet

\* two days after the creation day
LaterTime == (CreatedDate + 2) * TicksPerDay + 1

\* the lists of checked ids offered to start_new_day
CheckedLists == {{"d1"}, {"d1", "d2"}}

\* the task and reward references offered to log_activity_duration
ActivityRefs == {<<NoTask, NoTask>>, <<"t1", NoTask>>, <<"t2", "r2">>, <<NoTask, "r1">>}

NextTenant ==
    /\ \E pid \in Profiles :
          \/ \E tid \in DOMAIN tasks :
                \/ HabitIncrement(tid, pid, "bob", Null, LaterTime)
                \/ DailyComplete(tid, pid, "bob", LaterTime, Null)
                \/ TodoComplete(tid, pid, "bob", LaterTime)
                \/ RewardClaim(tid, pid, "bob", LaterTime)
          \/ \E ref \in ActivityRefs :
                LogActivityDuration(pid, "bob", 1200, <<"w">>, ref[1], ref[2])
          \/ RefreshProfilePeriodState(pid, "bob", LaterTime)
          \/ \E checked \in CheckedLists : StartNewDay(pid, "bob", checked, LaterTime)
    /\ Len(log') <= Len(AliceLog) + MaxLog

SpecTenant == InitTenant /\ [][NextTenant]_vars

(***************************************************************************)
(* Specification SpecRollover: a habit of any reset cadence and a daily of *)
(* any cadence and interval, incremented and completed by their owner on  *)
(* the creation day, refreshed and rolled over on days of later periods.   *)
(***************************************************************************)
\* the habit's count_reset_cadence (null, or any of Task.Cadence) with the daily's
\* repeat_cadence and whether the daily repeats every period or every MaxRepeat-th
RolloverCadences ==
    {<<"null", "day", FALSE>>, <<"never", "week", TRUE>>, <<"day", "day", TRUE>>,
     <<"week", "week", FALSE>>, <<"month", "month", FALSE>>, <<"year", "year", TRUE>>}

RolloverTasks(reset, cadence, every) ==
    [LedgerTasks(FALSE) EXCEPT
       !["h1"] = [@ EXCEPT !.count_reset_cadence = reset],
       !["d1"] = [@ EXCEPT !.repeat_cadence = cadence, !.repeat_every = every]]

InitRollover ==
    /\ \E c \in RolloverCadences :
          tasks = RolloverTasks(c[1], c[2], IF c[3] THEN MaxRepeat ELSE 1)
    /\ profiles = [p \in Profiles |-> [account |-> AccountOf[p], gold_balance |-> 1000]]
    /\ opening = [p \in Profiles |-> 1000]
    /\ rules = [i \in TaskIds |-> IF i = "d1" THEN TestRules ELSE {}]
    /\ log = <<>>
    /\ completions = <<>>
    /\ Quiet

\* the timestamps offered to refresh and start_new_day: the first tick of the day
\* after the creation day, and of a day of the next and of the last period of the
\* daily t
RolloverTimes(t) ==
    {(CreatedDate + 1) * TicksPerDay}
      \cup {ProbeDate(t.repeat_cadence, t.repeat_every, k) * TicksPerDay : k \in {1, MaxSpan - 1}}

\* who calls start_new_day, with which checked ids: the owner with none and with the
\* daily and the habit, a stranger with the daily
RolloverCalls == {<<"alice", {}>>, <<"alice", {"d1", "h1"}>>, <<"bob", {"d1"}>>}

NextRollover ==
    /\ \/ HabitIncrement("h1", "pA", "alice", Null, FirstTime)
       \/ DailyComplete("d1", "pA", "alice", FirstTime, Null)
       \/ \E user \in Users, ts \in RolloverTimes(tasks["d1"]) :
             RefreshProfilePeriodState("pA", user, ts)
       \/ \E c \in RolloverCalls, ts \in RolloverTimes(tasks["d1"]) :
             StartNewDay("pA", c[1], c[2], ts)
    /\ Len(log') <= MaxLog

SpecRollover == InitRollover /\ [][NextRollover]_vars

(***************************************************************************)
(* Specification SpecRefresh: a refresh and an action of the same profile, *)
(* one transaction each, sent a day or two after the daily was completed   *)
(* and the habit incremented on the day they were created.                 *)
(***************************************************************************)
\* the connection that sends the action
Actor == 2

\* the habit's first increment and the daily's first completion, on the first day
FirstIncrement ==
    habit_increment("h1", LedgerTasks(FALSE)["h1"], "pA",
                    [account |-> "alice", gold_balance |-> 1000], "alice", Null, FirstTime,
                    LedgerTasks(FALSE))

FirstCompletion ==
    daily_complete("d1", LedgerTasks(FALSE)["d1"], "pA", FirstIncrement.profile, "alice",
                   FirstTime, Null, {}, LedgerTasks(FALSE))

\* the task rows after the two
RefreshTasks ==
    [LedgerTasks(FALSE) EXCEPT !["h1"] = FirstIncrement.task, !["d1"] = FirstCompletion.task]

RefreshProfiles ==
    [p \in Profiles |-> IF p = "pA" THEN FirstCompletion.profile
                         ELSE [account |-> AccountOf[p], gold_balance |-> 0]]

InitRefresh ==
    /\ tasks = RefreshTasks
    /\ profiles = RefreshProfiles
    /\ opening = [p \in Profiles |-> IF p = "pA" THEN 1000 ELSE 0]
    /\ rules = [i \in TaskIds |-> {}]
    /\ log = FirstIncrement.log \o FirstCompletion.log
    /\ completions = <<>>
    /\ Quiet

\* the times of the requests: the start of the next day and of the day after
RefreshTimes == {(CreatedDate + 1) * TicksPerDay, (CreatedDate + 2) * TicksPerDay}

\* the actions sent along with the refresh: <<operation, task>>
RefreshActions == {<<"daily_complete", "d1">>, <<"habit_increment", "h1">>,
                   <<"start_new_day", "d1">>}

NextRefresh ==
    \/ \E user \in Users, ts \in RefreshTimes :
          Begin(Refresher, "refresh", NoTask, "pA", user, Null, ts)
    \/ \E c \in RefreshActions, ts \in RefreshTimes :
          Begin(Actor, c[1], c[2], "pA", "alice", Null, ts)
    \/ \E proc \in {Refresher, Actor} :
          \/ LockProfile(proc)
          \/ txn[proc].op \notin RolloverOps /\ LockTask(proc)
          \/ LockChecked(proc)
          \/ LockDailies(proc)
          \/ LockHabits(proc)
          \/ FinishRollover(proc)
          \/ RaiseRollover(proc)
          \/ FinishAction(proc)

SpecRefresh == InitRefresh /\ [][NextRefresh]_vars

(***************************************************************************)
(* Specification SpecBonus: a daily of cadence day with one bonus rule of  *)
(* goal 1, for a range of rewards and percents, completed day after day.   *)
(***************************************************************************)
\* gold_delta of the daily, in cents
BonusBases == {1, 3, 5, 7, 250, -3, -5}

\* bonus_percent of the rule, in hundredths of a percent: 0, 0.01, 33.33, 50, 150
BonusPercents == {0, 1, 3333, 5000, 15000}

InitBonus ==
    /\ \E base \in BonusBases :
          tasks = [i \in {"d1"} |-> [TaskDefaults("pA", "daily", <<"d">>, base)
                                       EXCEPT !.repeat_cadence = "day"]]
    /\ \E b \in BonusPercents :
          rules = [i \in TaskIds |->
                     IF i = "d1" THEN {[streak_goal |-> 1, bonus_percent |-> b]} ELSE {}]
    /\ \E g \in {0, 1000} :
          /\ profiles = [p \in Profiles |-> [account |-> AccountOf[p], gold_balance |-> g]]
          /\ opening = [p \in Profiles |-> g]
    /\ log = <<>>
    /\ completions = <<>>
    /\ Quiet

NextBonus ==
    /\ \E k \in 0..MaxSpan :
          DailyComplete("d1", "pA", "alice", (CreatedDate + k) * TicksPerDay + 1, Null)
    /\ Len(completions') <= MaxCompletions

SpecBonus == InitBonus /\ [][NextBonus]_vars

(***************************************************************************)
(* Specification SpecPeriods: the period resolver on a daily of any        *)
(* cadence, of a small or a large interval, created on one of several      *)
(* dates, and completed for dates before, at and after its creation.       *)
(***************************************************************************)
\* an interval of as many periods as the years of the creation date
LargeRepeat == 2025

\* creation dates: Thursday 2025-11-20, the leap day 2024-02-29, the last day of 2025
AnchorDates == {CreatedDate, MkDate[2024, 2, 29], MkDate[2025, 12, 31]}

PeriodTask(cadence, every, anchor) ==
    [i \in {"d1"} |-> [TaskDefaults("pA", "daily", <<"d">>, 1000)
                         EXCEPT !.repeat_cadence = cadence, !.repeat_every = every,
                                !.created_at = anchor * TicksPerDay + 1]]

InitPeriods ==
    /\ \E cadence \in Cadences, every \in (1..MaxRepeat) \cup {LargeRepeat}, anchor \in AnchorDates :
          tasks = PeriodTask(cadence, every, anchor)
    /\ profiles = [p \in Profiles |-> [account |-> AccountOf[p], gold_balance |-> 0]]
    /\ opening = [p \in Profiles |-> 0]
    /\ rules = [i \in TaskIds |-> {}]
    /\ log = <<>>
    /\ completions = <<>>
    /\ Quiet

\* the dates the resolver is asked about for the daily t: the day before its
\* creation, and days up to two years after it
TargetDates(t) ==
    {local_date_from_dt(t.created_at) + k : k \in {-1, 0, 1, 6, 7, 13, 29, 31, 59, 365, 366, 731}}

\* NewDayViewSet.list: the refresh, then the preview of the refreshed rows
new_day_preview(tt, pid, p, user, ts) ==
    IF refresh_profile_period_state(tt, pid, p, user, ts).error # ""
    THEN [error |-> refresh_profile_period_state(tt, pid, p, user, ts).error, results |-> {}]
    ELSE get_uncompleted_dailies_from_previous_period(
             refresh_profile_period_state(tt, pid, p, user, ts).tasks, pid, p, user, ts)

\* the times of the previews of the daily t: late on the day of its creation, and
\* the start of the next day and of the day after
PreviewTimes(t) == {t.created_at, t.created_at + TicksPerDay - 1, t.created_at + 2 * TicksPerDay - 1}

\* the dates the daily t is completed for
CompletionDates(t) == {local_date_from_dt(t.created_at) + k : k \in {-1, 0, 31, 366}}

NextPeriods ==
    /\ \E d \in CompletionDates(tasks["d1"]) :
          DailyComplete("d1", "pA", "alice", tasks["d1"].created_at, d)
    /\ Len(completions') <= MaxCompletions

SpecPeriods == InitPeriods /\ [][NextPeriods]_vars

(***************************************************************************)
(* Specification SpecLocks: one call per connection, on either profile,    *)
(* with tasks of either profile: the four task actions, refresh,           *)
(* start_new_day and log_activity_duration, each taking its row locks one  *)
(* select_for_update at a time.                                            *)
(***************************************************************************)
\* the task actions
ActionOps == {"habit_increment", "daily_complete", "todo_complete", "reward_claim"}

\* the calls of the task actions, refresh and start_new_day offered to a connection:
\* <<operation, task, profile, user>>
LockCalls ==
    {<<"todo_complete", "t1", "pA", "alice">>, <<"daily_complete", "d2", "pA", "alice">>,
     <<"habit_increment", "h2", "pB", "bob">>, <<"reward_claim", "r1", "pA", "bob">>,
     <<"refresh", NoTask, "pB", "bob">>, <<"refresh", NoTask, "pA", "bob">>,
     <<"start_new_day", "d1", "pA", "alice">>}

\* the calls of log_activity_duration offered: <<profile, user, task, reward>>
LockActivityCalls ==
    {<<"pA", "alice", "t1", "r2">>, <<"pB", "bob", "r2", "t1">>, <<"pA", "alice", NoTask, "r1">>,
     <<"pA", "alice", "t2", NoTask>>, <<"pB", "alice", "t2", "r2">>}

InitLocks ==
    /\ tasks = [i \in TaskIds \cup OtherIds |-> IF i \in TaskIds THEN AliceTasks[i] ELSE BobTasks[i]]
    /\ profiles = [p \in Profiles |-> [account |-> AccountOf[p],
                                        gold_balance |-> IF p = "pA" THEN 1700 ELSE 700]]
    /\ opening = [p \in Profiles |-> IF p = "pA" THEN 1000 ELSE 700]
    /\ rules = [i \in TaskIds \cup OtherIds |-> IF i \in {"d1", "d2"} THEN TestRules ELSE {}]
    /\ log = AliceLog
    /\ completions = <<>>
    /\ txn = [proc \in Procs |-> IdleTxn]
    /\ locks = [row \in Profiles \cup TaskIds \cup OtherIds |-> {}]

\* @transaction.atomic of log_activity_duration: the call opens a transaction
BeginActivity(proc, pid, user, task, reward) ==
    /\ txn[proc].pc = "idle"
    /\ txn' = [txn EXCEPT ![proc] =
                 [pc |-> "begun", op |-> "log_activity", task |-> task, reward |-> reward,
                  profile |-> pid, user |-> user, by |-> Null, ts |-> LaterTime,
                  profile_row |-> <<>>, task_row |-> <<>>, before |-> <<>>, rows |-> <<>>]]
    /\ UNCHANGED <<tasks, profiles, rules, log, opening, completions, locks>>

\* the account check of log_activity_duration raises
RaiseActivity(proc) ==
    /\ txn[proc].pc = "profile_locked"
    /\ txn[proc].op = "log_activity"
    /\ ~owner_locked(txn[proc])
    /\ EndOnce(proc)
    /\ UNCHANGED <<tasks, profiles, rules, log, opening, completions>>

\* if task is not None: Task.objects.select_for_update().get(id=task.id)
LockActivityTask(proc) ==
    /\ txn[proc].pc = "profile_locked"
    /\ txn[proc].op = "log_activity"
    /\ owner_locked(txn[proc])
    /\ IF txn[proc].task = NoTask
       THEN /\ txn' = [txn EXCEPT ![proc].pc = "task_locked"]
            /\ UNCHANGED <<tasks, profiles, rules, log, opening, completions, locks>>
       ELSE LockRows(proc, {txn[proc].task}, "task_locked")

\* the task read under lock is not the profile's
task_of_other_profile(x) == x.task # NoTask /\ x.rows[x.task].profile # x.profile

\* "Task must belong to the selected profile." is raised
RaiseActivityTask(proc) ==
    /\ txn[proc].pc = "task_locked"
    /\ task_of_other_profile(txn[proc])
    /\ EndOnce(proc)
    /\ UNCHANGED <<tasks, profiles, rules, log, opening, completions>>

\* if reward is not None: Task.objects.select_for_update().get(id=reward.id)
LockActivityReward(proc) ==
    /\ txn[proc].pc = "task_locked"
    /\ ~task_of_other_profile(txn[proc])
    /\ IF txn[proc].reward = NoTask
       THEN /\ txn' = [txn EXCEPT ![proc].pc = "reward_locked"]
            /\ UNCHANGED <<tasks, profiles, rules, log, opening, completions, locks>>
       ELSE LockRows(proc, {txn[proc].reward}, "reward_locked")

\* the rest of log_activity_duration on the rows read under lock: the checks of the
\* reward, then the entry saved, or the error raised
FinishActivity(proc) ==
    /\ txn[proc].pc = "reward_locked"
    /\ log' = log \o log_activity_duration(txn[proc].profile, txn[proc].profile_row[1],
                                            txn[proc].user, 1200, <<"w">>, txn[proc].task,
                                            txn[proc].reward, rows_seen(txn[proc])).log
    /\ EndOnce(proc)
    /\ UNCHANGED <<tasks, profiles, rules, opening, completions>>

NextLocks ==
    \E proc \in Procs :
       \/ \E c \in LockCalls : Begin(proc, c[1], c[2], c[3], c[4], Null, LaterTime)
       \/ \E c \in LockActivityCalls : BeginActivity(proc, c[1], c[2], c[3], c[4])
       \/ LockProfile(proc)
       \/ txn[proc].op \in ActionOps /\ LockTask(proc)
       \/ LockChecked(proc)
       \/ LockDailies(proc)
       \/ LockHabits(proc)
       \/ FinishRollover(proc)
       \/ RaiseRollover(proc)
       \/ FinishAction(proc)
       \/ RaiseActivity(proc)
       \/ LockActivityTask(proc)
       \/ RaiseActivityTask(proc)
       \/ LockActivityReward(proc)
       \/ FinishActivity(proc)

SpecLocks == InitLocks /\ [][NextLocks]_vars

(***************************************************************************)
(* Properties.                                                             *)
(***************************************************************************)
\* the log entries of profile p, in order of creation
LogOf(p) == SelectSeq(log, LAMBDA e : e.profile = p)

RECURSIVE SumGoldDelta(_)
\* the sum of gold_delta over a sequence of log entries
SumGoldDelta(es) == IF es = <<>> THEN 0 ELSE es[1].gold_delta + SumGoldDelta(Tail(es))

\* the number of log entries of the given type about the given task
CountLogs(type, tid) == Len(SelectSeq(log, LAMBDA e : e.type = type /\ e.task = tid))

\* the outcome r rejects with the given error and writes nothing: the rows are t and p
RejectsUnchanged(r, error, t, p) ==
    /\ r.error = error
    /\ r.task = t
    /\ r.profile = p
    /\ r.log = <<>>

\* the ledger equations of profile p for the entries es of its log
LedgerHolds(p, es) ==
    /\ profiles[p].gold_balance = opening[p] + SumGoldDelta(es)
    /\ es # <<>> => profiles[p].gold_balance = es[Len(es)].user_gold

\* C1: at every point the balance of a profile is its opening balance plus the sum of
\* gold_delta over its log entries, so for a profile that started at 0 with no entries
\* it is that sum, and it is the user_gold of the profile's latest log entry.
C1_LedgerInvariant == \A p \in Profiles : LedgerHolds(p, LogOf(p))

\* a profile that started at 0 and has two entries of different types, the first moving gold
C1_Witness ==
    /\ opening["pA"] = 0
    /\ Len(LogOf("pA")) >= 2
    /\ LogOf("pA")[1].gold_delta # 0
    /\ LogOf("pA")[1].type # LogOf("pA")[2].type

\* C2: with transactions interleaving, every log entry's user_gold is the opening balance
\* plus the gold_delta of the entries up to and including it (the stored balance right
\* after its commit), and the stored balance is the opening balance plus the gold_delta
\* of all committed entries: no update of the balance is lost.
C2_NoLostUpdate ==
    \A p \in Profiles :
       /\ profiles[p].gold_balance = opening[p] + SumGoldDelta(LogOf(p))
       /\ \A i \in 1..Len(LogOf(p)) :
             LogOf(p)[i].user_gold = opening[p] + SumGoldDelta(SubSeq(LogOf(p), 1, i))

\* after a commit that moved the balance, one transaction holds the rows and has read the
\* balance as committed while another, begun on the same profile, waits for the row
C2_Witness ==
    /\ Len(log) >= 1
    /\ profiles["pA"].gold_balance # opening["pA"]
    /\ \E a, b \in Procs :
          /\ a # b
          /\ txn[a].pc = "locked"
          /\ txn[a].profile_row[1].gold_balance = profiles["pA"].gold_balance
          /\ txn[b].pc = "begun"
          /\ txn[b].profile = txn[a].profile

\* dates around those the daily t is completed on: each, the day after and three days after
WindowDates(t) == {d + e : d \in ProbeDates(t), e \in {0, 1, 3}}

\* calls of daily_complete as <<timestamp, completion_period>>: by timestamp alone, or
\* with a completion_period
DailyCalls(t) ==
    {<<d * TicksPerDay + 1, Null>> : d \in WindowDates(t)}
      \cup {<<FirstTime, d>> : d \in WindowDates(t)}

\* the date a call is about: completion_period or local_date_from_dt(timestamp)
CallDate(call) == IF call[2] # Null THEN call[2] ELSE local_date_from_dt(call[1])

\* the owner's call of daily_complete on d1 in the current state
DailyOutcome(call) ==
    daily_complete("d1", tasks["d1"], "pA", profiles["pA"], "alice", call[1], call[2],
                   rules["d1"], tasks)

\* the outcome r of a call that resolves to period: rejected as already completed exactly
\* when period is the last completion period, and then nothing is written
GateHolds(r, period) ==
    /\ r.error \in {"", "already_completed"}
    /\ r.error = "already_completed" <=> period = tasks["d1"].last_completion_period
    /\ r.error = "already_completed"
          => RejectsUnchanged(r, "already_completed", tasks["d1"], profiles["pA"])

\* C3: a daily_complete call on a daily, by timestamp or by completion_period, is rejected
\* as already completed if and only if the period it resolves to is the task's
\* last_completion_period, and the rejected call writes nothing: streaks, action count,
\* balance and log stay as they were.
C3_RejectedIffSamePeriod ==
    \A call \in DailyCalls(tasks["d1"]) :
       GateHolds(DailyOutcome(call), get_daily_period_start_for_task(tasks["d1"], CallDate(call)))

\* a weekly daily completed last for the week of two different days offered, the call for
\* the second of them rejected
C3_Witness ==
    /\ tasks["d1"].repeat_cadence = "week"
    /\ completions # <<>>
    /\ tasks["d1"].last_completion_period = completions[Len(completions)].period
    /\ \E c1, c2 \in DailyCalls(tasks["d1"]) :
          /\ CallDate(c1) # CallDate(c2)
          /\ get_daily_period_start_for_task(tasks["d1"], CallDate(c1))
                = tasks["d1"].last_completion_period
          /\ get_daily_period_start_for_task(tasks["d1"], CallDate(c2))
                = tasks["d1"].last_completion_period
          /\ DailyOutcome(c2).error = "already_completed"

\* C4: for every daily and every period, at most one successful completion (one
\* daily_completed log entry) is ever made for that period.
C4_OneCompletionPerPeriod ==
    \A i, j \in DOMAIN completions :
       (i # j /\ completions[i].task = completions[j].task)
          => completions[i].period # completions[j].period

\* period q is the period right after period p on the grid of the daily t: q is a
\* period start, and the day before q falls in p
Consecutive(t, p, q) ==
    /\ q > p
    /\ get_daily_period_start_for_task(t, q) = q
    /\ get_daily_period_start_for_task(t, q - 1) = p

\* completion i + 1 found the task's period and streak as completion i left them
Linked(i) ==
    /\ completions[i + 1].task = completions[i].task
    /\ completions[i + 1].period_before = completions[i].period
    /\ completions[i + 1].streak_before = completions[i].streak

\* completion i found no completion recorded for the period before its own
FreshStart(t, i) ==
    \/ completions[i].period_before = Null
    \/ ~Consecutive(t, completions[i].period_before, completions[i].period)

\* completions i, i + 1, i + 2 are for three periods in a row, the first a fresh start
ThreeInARow(t, i) ==
    /\ FreshStart(t, i)
    /\ Linked(i)
    /\ Linked(i + 1)
    /\ Consecutive(t, completions[i].period, completions[i + 1].period)
    /\ Consecutive(t, completions[i + 1].period, completions[i + 2].period)

\* completion i + 1 is for a later period than completion i, with a period skipped
SkippedBefore(t, i) ==
    /\ Linked(i)
    /\ completions[i + 1].period > completions[i].period
    /\ ~Consecutive(t, completions[i].period, completions[i + 1].period)

ClaimOutcome(tid) ==
    reward_claim(tid, tasks[tid], "pA", profiles["pA"], "alice", FirstTime, tasks)

\* the outcome r of a claim of reward t by profile p: never a negative balance, and when
\* the cost exceeds the balance a rejection that writes nothing, for insufficient funds
\* unless the reward is one already claimed
FundsHold(r, t, p) ==
    /\ r.error = "" => r.profile.gold_balance >= 0
    /\ to_cents(p.gold_balance + t.gold_delta, 1) < 0
          => /\ r.error # ""
             /\ RejectsUnchanged(r, r.error, t, p)
             /\ (t.is_repeatable \/ ~t.is_claimed) => r.error = "insufficient_funds"

C7_BalanceNeverNegative == \A p \in Profiles : profiles[p].gold_balance >= 0

\* the outcome r of a claim of reward t by profile p: rejected, nothing written, once a
\* non-repeatable reward is claimed; accepted, counted and charged, for a repeatable
\* reward the balance covers
ClaimOnce(r, t, p) ==
    /\ (~t.is_repeatable /\ t.is_claimed) => RejectsUnchanged(r, "already_claimed", t, p)
    /\ (t.is_repeatable /\ p.gold_balance + t.gold_delta >= 0)
          => /\ r.error = ""
             /\ r.task.claim_count = t.claim_count + 1
             /\ r.profile.gold_balance = p.gold_balance + t.gold_delta

\* C8: a non-repeatable reward is claimed at most once: once claimed, every reward_claim
\* on it is rejected as already claimed and writes nothing, so claim_count stays 1 and
\* the cost is charged once; a repeatable reward is claimed again whenever the balance
\* covers the cost, each claim adding 1 to claim_count.
C8_ClaimOnceUnlessRepeatable ==
    \A tid \in DOMAIN tasks :
       tasks[tid].task_type = "reward"
          => /\ ClaimOnce(ClaimOutcome(tid), tasks[tid], profiles["pA"])
             /\ tasks[tid].claim_count = CountLogs("reward_claimed", tid)
             /\ ~tasks[tid].is_repeatable => tasks[tid].claim_count <= 1

\* a non-repeatable reward, claimed, that the balance would cover once more
C8_Witness ==
    /\ ~tasks["r1"].is_repeatable
    /\ tasks["r1"].is_claimed
    /\ tasks["r1"].claim_count = 1
    /\ profiles["pA"].gold_balance + tasks["r1"].gold_delta >= 0
    /\ ClaimOutcome("r1").error = "already_claimed"

\* the owner's call of todo_complete on todo tid in the current state
TodoOutcome(tid) ==
    todo_complete(tid, tasks[tid], "pA", profiles["pA"], "alice", FirstTime, tasks)

\* the outcome r of todo_complete on todo t by profile p: the first call marks it done,
\* stamps it and applies gold_delta; a later call is rejected and writes nothing
DoneOnce(r, t, p) ==
    /\ ~t.is_done
          => /\ r.error = ""
             /\ r.task.is_done
             /\ r.task.completed_at = FirstTime
             /\ r.profile.gold_balance = p.gold_balance + t.gold_delta
             /\ r.log[1].user_gold = p.gold_balance + t.gold_delta
    /\ t.is_done => RejectsUnchanged(r, "already_completed", t, p)

\* C9: todo_complete succeeds at most once per todo: the first call sets is_done and
\* completed_at and applies gold_delta once; every later call is rejected as already
\* completed and leaves the balance what it was.
C9_TodoCompletesOnce ==
    \A tid \in DOMAIN tasks :
       tasks[tid].task_type = "todo"
          => /\ DoneOnce(TodoOutcome(tid), tasks[tid], profiles["pA"])
             /\ CountLogs("todo_completed", tid) = (IF tasks[tid].is_done THEN 1 ELSE 0)
             /\ tasks[tid].is_done <=> tasks[tid].completed_at # Null

\* a todo done, with something logged after its completion
C9_Witness ==
    /\ tasks["t1"].is_done
    /\ Len(log) = 2
    /\ log[1].type = "todo_completed"
    /\ TodoOutcome("t1").error = "already_completed"

\* the bonus percents of the rules of rs whose goal the streak has reached
QualifyingPercents(rs, streak) == {r.bonus_percent : r \in {q \in rs : q.streak_goal <= streak}}

\* the largest of them, 0 when there is none
HighestQualifying(rs, streak) ==
    IF QualifyingPercents(rs, streak) = {} THEN 0
    ELSE CHOOSE b \in QualifyingPercents(rs, streak) :
            \A c \in QualifyingPercents(rs, streak) : c <= b

\* C10: the gold a daily completion earns is the task's gold_delta raised by the highest
\* bonus_percent among the task's rules whose streak_goal is at most the streak after
\* the completion (0 % when none qualifies); from streak 2 with rules
\* {2: 10 %, 3: 25 %} the streak becomes 3 and the gold 1.25 times the base.
C10_HighestQualifyingBonus ==
    \A i \in DOMAIN completions :
       /\ completions[i].gold_delta
             = to_cents(tasks[completions[i].task].gold_delta
                          * (PercentScale + HighestQualifying(rules[completions[i].task],
                                                              completions[i].streak)),
                        PercentScale)
       /\ (rules[completions[i].task] = TestRules /\ completions[i].streak_before = 2
             /\ completions[i].streak = 3)
            => 4 * completions[i].gold_delta = 5 * tasks[completions[i].task].gold_delta

\* a completion that took the streak from 2 to 3 under the rules {2: 10 %, 3: 25 %}
C10_Witness ==
    /\ rules["d1"] = TestRules
    /\ \E i \in DOMAIN completions :
          /\ completions[i].streak_before = 2
          /\ completions[i].streak = 3
          /\ completions[i].gold_delta = 1250
          /\ log[i].gold_delta = 1250

\* transaction proc ends in this step
TxnEnds(proc) == txn[proc].pc # "idle" /\ txn'[proc].pc = "idle"

\* the rows and the log are in the next state what db recorded
Persisted(db) == tasks' = db.tasks /\ profiles' = db.profiles /\ log' = db.log

\* the end of a task-action transaction x whose outcome is r: after an error the rows
\* and the log are what they were when the transaction first locked a row; otherwise
\* the task, the profile and the log entry are written together
EndsWhole(x, r) ==
    IF r.error # ""
    THEN Persisted(x.before[1])
    ELSE Persisted([tasks |-> [x.before[1].tasks EXCEPT ![x.task] = r.task],
                    profiles |-> [x.before[1].profiles EXCEPT ![x.profile] = r.profile],
                    log |-> x.before[1].log \o r.log])

\* a failing log_activity_duration appends nothing and a failing start_new_day
\* leaves every task as it was
FailedCallsWriteNothing ==
    /\ \A c \in ActivityCalls :
          log_activity_duration("pA", profiles["pA"], c[1], c[2], c[3], c[4], NoTask, tasks).error # ""
             => log_activity_duration("pA", profiles["pA"], c[1], c[2], c[3], c[4], NoTask, tasks).log = <<>>
    /\ \A user \in Users :
          start_new_day(tasks, "pA", profiles["pA"], user, {"d1"}, NextDayTime).error # ""
             => start_new_day(tasks, "pA", profiles["pA"], user, {"d1"}, NextDayTime).tasks = tasks

\* C11: an action that fails with a validation error (ownership, task type, already
\* completed or claimed, funds, or a full_clean() of the task, the profile or the log
\* entry while saving) leaves tasks, balances and log exactly as they were before the
\* call, also when rows had been saved before the error; and a task write is persisted
\* only together with its profile and log writes.
C11_AllOrNothing ==
    /\ []FailedCallsWriteNothing
    /\ [][\A proc \in Procs : TxnEnds(proc) => EndsWhole(txn[proc], run(txn[proc]))]_vars

\* a transaction has saved its task row, and its profile row too, and the full_clean()
\* that comes next fails
C11_Witness ==
    \E proc \in Procs :
       /\ txn[proc].pc = "profile_saved"
       /\ run(txn[proc]).error = "validation"
       /\ tasks[txn[proc].task] # txn[proc].before[1].tasks[txn[proc].task]
       /\ profiles["pA"] # txn[proc].before[1].profiles["pA"]

\* everything that belongs to alice's profile is as bob found it, and no entry of
\* another profile's log refers to a task of hers
AliceUntouched ==
    /\ \A i \in TaskIds : tasks[i] = AliceTasks[i]
    /\ profiles["pA"] = [account |-> "alice", gold_balance |-> 1700]
    /\ LogOf("pA") = AliceLog
    /\ \A i \in DOMAIN log :
          log[i].profile # "pA" => (log[i].task \notin TaskIds /\ log[i].reward \notin TaskIds)

\* the errors of the four task actions called by user on profile pid with task tid
ActionErrors(tid, pid, user) ==
    {habit_increment(tid, tasks[tid], pid, profiles[pid], user, Null, LaterTime, tasks).error,
     daily_complete(tid, tasks[tid], pid, profiles[pid], user, LaterTime, Null, rules[tid], tasks).error,
     todo_complete(tid, tasks[tid], pid, profiles[pid], user, LaterTime, tasks).error,
     reward_claim(tid, tasks[tid], pid, profiles[pid], user, LaterTime, tasks).error}

\* the errors of the operations that take no task, called by user on profile pid
ProfileCallErrors(pid, user) ==
    {log_activity_duration(pid, profiles[pid], user, 1200, <<"w">>, NoTask, NoTask, tasks).error,
     refresh_profile_period_state(tasks, pid, profiles[pid], user, LaterTime).error,
     get_uncompleted_dailies_from_previous_period(tasks, pid, profiles[pid], user, LaterTime).error}
      \cup {start_new_day(tasks, pid, profiles[pid], user, checked, LaterTime).error :
               checked \in CheckedLists}

\* every operation bob calls on alice's profile, and every task action he calls on
\* his own profile with a task of hers, fails with the ownership error; a log of
\* activity on his profile that refers to a task or reward of hers fails too
ForeignCallsRejected ==
    /\ ProfileCallErrors("pA", "bob") = {"ownership"}
    /\ \A tid \in DOMAIN tasks : ActionErrors(tid, "pA", "bob") = {"ownership"}
    /\ \A tid \in TaskIds : ActionErrors(tid, "pB", "bob") = {"ownership"}
    /\ log_activity_duration("pB", profiles["pB"], "bob", 1200, <<"w">>, "t1", NoTask, tasks).error
          = "task_id"
    /\ log_activity_duration("pB", profiles["pB"], "bob", 1200, <<"w">>, NoTask, "r1", tasks).error
          = "reward_id"

\* C12 as stated: also start_new_day called with a task that does not belong to the
\* given profile fails with the ownership error.
C12_EveryForeignTaskRejected ==
    /\ ForeignCallsRejected
    /\ start_new_day(tasks, "pB", profiles["pB"], "bob", {"d1", "d2"}, LaterTime).error = "ownership"

\* C12: every operation invoked by an account that does not own the given profile
\* fails with the ownership error, and so does every task action invoked with a task
\* that does not belong to the given profile (log_activity_duration with such a task
\* or reward fails with its own must-belong error); start_new_day does not fail on a
\* checked id that is not a daily of the given profile but leaves that task alone;
\* and no sequence of operations by one account changes a profile, task or log entry
\* that belongs to a profile of another account.
C12_TenantIsolation ==
    /\ ForeignCallsRejected
    /\ start_new_day(tasks, "pB", profiles["pB"], "bob", {"d1", "d2"}, LaterTime).error = ""
    /\ AliceUntouched

\* bob has completed his own daily and logged twice, and a refresh of alice's
\* profile, were he its owner, would reset her streak
C12_Witness ==
    /\ Len(LogOf("pB")) = MaxLog
    /\ tasks["d2"].current_streak = 1
    /\ refresh_profile_period_state(tasks, "pA", profiles["pA"], "alice", LaterTime).tasks["d1"]
          # tasks["d1"]
    /\ refresh_profile_period_state(tasks, "pA", profiles["pA"], "bob", LaterTime).error = "ownership"

\* the owner's refresh of profile pA at ts, on the task rows tt
RefreshOf(tt, ts) == refresh_profile_period_state(tt, "pA", profiles["pA"], "alice", ts)

\* a second refresh at ts leaves the rows the first one left
SecondLeaves(once, ts) ==
    /\ once.error = ""
    /\ RefreshOf(once.tasks, ts).error = ""
    /\ RefreshOf(once.tasks, ts).tasks = once.tasks

\* C13: refresh_profile_period_state is idempotent: in every reachable state and for
\* every timestamp, a second refresh at the same timestamp changes nothing the first
\* one left (the refresh writes task rows only, so balance and log are out of it).
C13_RefreshIdempotent ==
    \A ts \in RolloverTimes(tasks["d1"]) : SecondLeaves(RefreshOf(tasks, ts), ts)

\* a streak of two and a habit count, both stale at some timestamp, so that the first
\* refresh resets both
C13_Witness ==
    /\ tasks["d1"].current_streak = 2
    /\ tasks["h1"].current_count > 0
    /\ \E ts \in RolloverTimes(tasks["d1"]) :
          /\ RefreshOf(tasks, ts).tasks["d1"].current_streak = 0
          /\ RefreshOf(tasks, ts).tasks["h1"].current_count = 0

\* the owner's start_new_day on profile pA with the ids checked, at ts
NewDayOf(checked, ts) == start_new_day(tasks, "pA", profiles["pA"], "alice", checked, ts)

\* the row t1 differs from the row t0 at most in the streak fields of a daily and in
\* the count of a habit
RolloverFrame(t0, t1) ==
    /\ t1 = [t0 EXCEPT !.current_streak = t1.current_streak,
                       !.best_streak = t1.best_streak,
                       !.last_completion_period = t1.last_completion_period,
                       !.current_count = t1.current_count]
    /\ t0.task_type # "daily"
          => /\ t1.current_streak = t0.current_streak
             /\ t1.best_streak = t0.best_streak
             /\ t1.last_completion_period = t0.last_completion_period
    /\ t0.task_type # "habit" => t1.current_count = t0.current_count

\* this step is a start_new_day of the owner that changed a task
NewDayStep ==
    /\ tasks' # tasks
    /\ \E c \in RolloverCalls, ts \in RolloverTimes(tasks["d1"]) :
          /\ c[1] = "alice"
          /\ tasks' = NewDayOf(c[2], ts).tasks

RoundTrip(t, p) ==
    /\ get_daily_period_start_for_task(t, p) = p
    /\ previous_period_of(t, p) # DateError
    /\ previous_period_of(t, p) < p

\* C14: for every date D, every cadence in {day, week, month, year}, every
\* repeat_every >= 1 and every anchor date, daily_period_start applied to its own
\* output returns that output unchanged, and previous_daily_period_start of
\* daily_period_start(D) is a date strictly earlier than daily_period_start(D).
C14_ResolverRoundTrip ==
    \A d \in TargetDates(tasks["d1"]) :
       RoundTrip(tasks["d1"], get_daily_period_start_for_task(tasks["d1"], d))

\* what the outcome r of a call has for the log: after a success one entry of the
\* given type and references, after an error nothing
Logs(r, type, task, reward) ==
    IF r.error = ""
    THEN /\ Len(r.log) = 1
         /\ r.log[1].type = type
         /\ r.log[1].task = task
         /\ r.log[1].reward = reward
    ELSE r.log = <<>>

\* every call there is to make has that for the log
EveryCallLogs ==
    /\ \A tid \in DOMAIN tasks, c \in Callers :
          /\ \A by \in {Null, 2005} :
                Logs(habit_increment(tid, tasks[tid], c[1], profiles[c[1]], c[2], by,
                                     FirstTime, tasks),
                     "habit_incremented", tid, NoTask)
          /\ \A ts \in LedgerTimes :
                Logs(daily_complete(tid, tasks[tid], c[1], profiles[c[1]], c[2], ts, Null,
                                    rules[tid], tasks),
                     "daily_completed", tid, NoTask)
          /\ Logs(todo_complete(tid, tasks[tid], c[1], profiles[c[1]], c[2], FirstTime, tasks),
                  "todo_completed", tid, NoTask)
          /\ Logs(reward_claim(tid, tasks[tid], c[1], profiles[c[1]], c[2], FirstTime, tasks),
                  "reward_claimed", tid, tid)
    /\ \A c \in Callers, duration \in {0, 1200}, title \in {<<" ">>, <<" ", "w">>},
          ref \in {<<"t1", "r1">>, <<NoTask, "t1">>} :
          Logs(log_activity_duration(c[1], profiles[c[1]], c[2], duration, title,
                                     ref[1], ref[2], tasks),
               "activity_duration", ref[1], ref[2])

\* the step appended to the log what the outcome r of its call has for it
Appended(r) == log' = log \o r.log

\* the step is a call of a task action and appended what that call has for the log
TaskActionLogged ==
    \A tid \in DOMAIN tasks, c \in Callers :
       /\ \A by \in {Null, 2005} :
             HabitIncrement(tid, c[1], c[2], by, FirstTime)
             => Appended(habit_increment(tid, tasks[tid], c[1], profiles[c[1]], c[2], by,
                                         FirstTime, tasks))
       /\ \A ts \in LedgerTimes :
             DailyComplete(tid, c[1], c[2], ts, Null)
             => Appended(daily_complete(tid, tasks[tid], c[1], profiles[c[1]], c[2], ts, Null,
                                        rules[tid], tasks))
       /\ TodoComplete(tid, c[1], c[2], FirstTime)
          => Appended(todo_complete(tid, tasks[tid], c[1], profiles[c[1]], c[2], FirstTime, tasks))
       /\ RewardClaim(tid, c[1], c[2], FirstTime)
          => Appended(reward_claim(tid, tasks[tid], c[1], profiles[c[1]], c[2], FirstTime, tasks))

\* the step is a call of log_activity_duration and appended what that call has for
\* the log
ActivityLogged ==
    \A c \in Callers, duration \in {0, 1200}, title \in {<<" ">>, <<" ", "w">>},
       ref \in {<<"t1", "r1">>, <<NoTask, "t1">>} :
       LogActivityDuration(c[1], c[2], duration, title, ref[1], ref[2])
       => Appended(log_activity_duration(c[1], profiles[c[1]], c[2], duration, title,
                                         ref[1], ref[2], tasks))

\* a refresh or a new day leaves the log as it is
RolloverLogsNothing ==
    \A c \in Callers :
       /\ RefreshProfilePeriodState(c[1], c[2], NextDayTime) => log' = log
       /\ \A checked \in {{}, {"d1", "h1"}} :
             StartNewDay(c[1], c[2], checked, NextDayTime) => log' = log

\* the entries there were are still there, as they were, and at most one is new
AppendOnly ==
    /\ Len(log') \in {Len(log), Len(log) + 1}
    /\ SubSeq(log', 1, Len(log)) = log

\* C16: the log is append-only and one-to-one with successful actions: every
\* successful habit_increment, daily_complete, todo_complete, reward_claim or
\* log_activity_duration appends exactly one entry of the matching type (a
\* reward_claimed entry carries the claimed task as task and as reward); rejected
\* actions, refresh_profile_period_state and start_new_day append none; no
\* operation modifies or removes an existing entry.
C16_LogAppendOnly ==
    /\ []EveryCallLogs
    /\ [][(tasks' # tasks \/ profiles' # profiles \/ log' # log)
           => AppendOnly /\ TaskActionLogged /\ ActivityLogged /\ RolloverLogsNothing]_vars

\* a completion and a claim have each appended their entry, the claim's with its two
\* references
C16_Witness ==
    /\ Len(log) = 2
    /\ log[1].type = "daily_completed" /\ log[1].task = "d1" /\ log[1].reward = NoTask
    /\ log[2].type = "reward_claimed" /\ log[2].task = "r1" /\ log[2].reward = "r1"

\* the fields of the variants the task t is not are at their defaults
VariantDefaults(t) ==
    /\ t.task_type # "daily"
       => t.current_streak = 0 /\ t.best_streak = 0 /\ t.last_completion_period = Null
    /\ t.task_type # "habit" => t.current_count = 0
    /\ t.task_type # "todo" => ~t.is_done /\ t.completed_at = Null
    /\ t.task_type # "reward" => ~t.is_claimed /\ t.claim_count = 0 /\ t.claimed_at = Null

\* the error of a call on a task of another variant than the action's
WrongType(t, type, r, pid, user) ==
    t.task_type # type
    => /\ r.error \in {"ownership", "task_type"}
       /\ t.profile = pid /\ profiles[pid].account = user => r.error = "task_type"

\* every action called on a task of another variant fails with that error
OwnVariantOnly ==
    \A tid \in DOMAIN tasks, c \in Callers :
       /\ \A by \in {Null, 2005} :
             WrongType(tasks[tid], "habit",
                       habit_increment(tid, tasks[tid], c[1], profiles[c[1]], c[2], by,
                                       FirstTime, tasks), c[1], c[2])
       /\ \A ts \in LedgerTimes :
             WrongType(tasks[tid], "daily",
                       daily_complete(tid, tasks[tid], c[1], profiles[c[1]], c[2], ts, Null,
                                      rules[tid], tasks), c[1], c[2])
       /\ WrongType(tasks[tid], "todo",
                    todo_complete(tid, tasks[tid], c[1], profiles[c[1]], c[2], FirstTime, tasks),
                    c[1], c[2])
       /\ WrongType(tasks[tid], "reward",
                    reward_claim(tid, tasks[tid], c[1], profiles[c[1]], c[2], FirstTime, tasks),
                    c[1], c[2])

\* C17: each action applies only to its own task variant (otherwise it fails with
\* the wrong-task-type error), so after any sequence of operations every task has
\* the fields of the other variants at their defaults: non-daily tasks have
\* current_streak = best_streak = 0 and last_completion_period null, non-habit
\* tasks current_count = 0, non-todo tasks is_done false and completed_at null,
\* non-reward tasks is_claimed false, claim_count 0 and claimed_at null.
C17_VariantFields ==
    /\ OwnVariantOnly
    /\ \A tid \in DOMAIN tasks : VariantDefaults(tasks[tid])

\* the todo is done and the daily completed, each with the fields of its own
\* variant off their defaults
C17_Witness ==
    /\ tasks["t1"].is_done /\ tasks["t1"].completed_at # Null
    /\ tasks["d1"].current_streak = 1 /\ tasks["d1"].last_completion_period # Null
    /\ tasks["h1"].current_count = 0 /\ ~tasks["r1"].is_claimed

\* the entries of the given type the log has for the task
EntriesOf(type, tid) == {k \in DOMAIN log : log[k].type = type /\ log[k].task = tid}

\* the profile's balance before the k-th entry of the log was written
BalanceBefore(k) == IF k = 1 THEN opening["pA"] ELSE log[k - 1].user_gold

\* the owner's request x, holding its locks, is rejected by its gate when the
\* action has been committed before, and is not rejected by it otherwise
GateOutcome(x) ==
    /\ x.op = "daily_complete"
       => (run(x).error = "already_completed") = (EntriesOf("daily_completed", x.task) # {})
    /\ x.op = "todo_complete" /\ x.user = "alice"
       => /\ (run(x).error = "already_completed") = (EntriesOf("todo_completed", x.task) # {})
          /\ run(x).error \in {"", "already_completed"}
    /\ x.op = "reward_claim" /\ ~tasks[x.task].is_repeatable
       => /\ (run(x).error = "already_claimed") = (EntriesOf("reward_claimed", x.task) # {})
          /\ run(x).error \in {"", "already_claimed", "insufficient_funds"}

\* C18: the idempotency gates hold under concurrency: of two concurrent
\* daily_complete requests for one task and period exactly one commits and the
\* other is rejected; likewise two concurrent todo_complete on one todo and two
\* concurrent reward_claim on one non-repeatable reward; and concurrent
\* reward_claim requests on one profile never jointly take the balance below zero:
\* each claim is taken off the balance the claim before it left.
C18_GatesUnderConcurrency ==
    /\ Cardinality(EntriesOf("daily_completed", "d1")) <= 1
    /\ Cardinality(EntriesOf("todo_completed", "t1")) <= 1
    /\ ~tasks["r1"].is_repeatable => Cardinality(EntriesOf("reward_claimed", "r1")) <= 1
    /\ \A proc \in Procs : txn[proc].pc = "locked" => GateOutcome(txn[proc])
    /\ \A k \in DOMAIN log :
          log[k].type = "reward_claimed"
          => /\ log[k].user_gold >= 0
             /\ log[k].user_gold = BalanceBefore(k) + log[k].gold_delta

\* two requests for the same completion are open at once: one holds the locks and
\* is about to commit, the other waits for the profile row
C18_Witness ==
    \E proc \in Procs, other \in Procs :
       /\ txn[proc].pc = "locked" /\ txn[proc].op = "daily_complete"
       /\ run(txn[proc]).error = ""
       /\ txn[other].pc = "begun" /\ txn[other].op = "daily_complete"
       /\ txn[other].task = txn[proc].task
       /\ ~row_available(locks[txn[other].profile], other)

\* the database after transaction x has run alone on the database db
RanAlone(x, db) ==
    CASE x.op = "refresh" ->
           [db EXCEPT !.tasks =
               LET r == refresh_profile_period_state(db.tasks, x.profile, db.profiles[x.profile],
                                                     x.user, x.ts)
               IN  IF r.error = "" THEN r.tasks ELSE db.tasks]
      [] x.op = "start_new_day" ->
           [db EXCEPT !.tasks =
               LET r == start_new_day(db.tasks, x.profile, db.profiles[x.profile], x.user,
                                      {x.task}, x.ts)
               IN  IF r.error = "" THEN r.tasks ELSE db.tasks]
      [] x.op = "daily_complete" ->
           LET r == daily_complete(x.task, db.tasks[x.task], x.profile, db.profiles[x.profile],
                                   x.user, x.ts, Null, rules[x.task], db.tasks)
           IN  IF r.error = ""
               THEN [tasks |-> [db.tasks EXCEPT ![x.task] = r.task],
                     profiles |-> [db.profiles EXCEPT ![x.profile] = r.profile]]
               ELSE db
      [] x.op = "habit_increment" ->
           LET r == habit_increment(x.task, db.tasks[x.task], x.profile, db.profiles[x.profile],
                                    x.user, x.by, x.ts, db.tasks)
           IN  IF r.error = ""
               THEN [tasks |-> [db.tasks EXCEPT ![x.task] = r.task],
                     profiles |-> [db.profiles EXCEPT ![x.profile] = r.profile]]
               ELSE db

\* the database the two transactions were sent to
RefreshDb == [tasks |-> RefreshTasks, profiles |-> RefreshProfiles]

\* the task rows after x and then y, each alone
SerialTasks(x, y) == RanAlone(y, RanAlone(x, RefreshDb)).tasks

\* C19: a refresh and a concurrent action are serialised: for any interleaving of
\* a refresh_profile_period_state transaction with a daily_complete,
\* habit_increment or start_new_day transaction on the same profile, the final
\* state of every task is the result of running the two transactions in one of
\* the two serial orders: no streak reset or completion write is lost, and
\* last_completion_period and current_streak are never left as a pair that
\* neither serial order produces.
C19_RefreshSerialised ==
    txn[Refresher].pc = "done" /\ txn[Actor].pc = "done"
    => \/ tasks = SerialTasks(txn[Refresher], txn[Actor])
       \/ tasks = SerialTasks(txn[Actor], txn[Refresher])

\* both are over: the completion took the profile's lock first and began the broken
\* streak again two days on, the refresh after it left that daily as it found it
\* and reset the habit's count
C19_Witness ==
    /\ txn[Refresher].pc = "done" /\ txn[Actor].pc = "done"
    /\ txn[Refresher].user = "alice"
    /\ txn[Actor].op = "daily_complete"
    /\ txn[Actor].before[1].tasks = RefreshTasks
    /\ txn[Refresher].before[1].tasks["d1"] = tasks["d1"]
    /\ tasks["h1"].current_count = 0
    /\ tasks["d1"].current_streak = 1
    /\ tasks["d1"].last_completion_period = CreatedDate + 2

\* the daily t was created in the period of its own that the date today is in
CreatedInCurrentPeriod(t, today) ==
    /\ local_date_from_dt(t.created_at) >= get_daily_period_start_for_task(t, today)
    /\ local_date_from_dt(t.created_at) <= today

\* C20: the new-day preview does not prompt for a period in which the task did not
\* yet exist: get_uncompleted_dailies_from_previous_period reports no daily task
\* whose creation date lies in the current period (a never-completed daily created
\* today with cadence day is not listed).
C20_PreviewSkipsNewDailies ==
    \A ts \in PreviewTimes(tasks["d1"]) :
       \A e \in new_day_preview(tasks, "pA", profiles["pA"], "alice", ts).results :
          ~CreatedInCurrentPeriod(tasks[e.id], local_date_from_dt(ts))

\* a title of no character but spaces
Blank(title) == \A k \in DOMAIN title : title[k] = " "

\* the call names a task or a reward of another profile, or a reward that is none
BadReference(pid, task, reward) ==
    \/ task # NoTask /\ tasks[task].profile # pid
    \/ reward # NoTask /\ tasks[reward].profile # pid
    \/ reward # NoTask /\ tasks[reward].task_type # "reward"

\* the outcome r of log_activity_duration for the call: rejected with nothing to
\* append when the call is one the claim names, and otherwise, for the owner, one
\* entry of gold_delta 0 and the balance as it is, the profile row as it was
ActivityOutcome(r, pid, user, duration, title, task, reward) ==
    IF duration = Null \/ duration <= 0 \/ Blank(title) \/ BadReference(pid, task, reward)
          \/ profiles[pid].account # user
    THEN r.error # "" /\ r.log = <<>>
    ELSE /\ r.error = ""
         /\ r.log = <<[profile |-> pid, type |-> "activity_duration", task |-> task,
                       reward |-> reward, gold_delta |-> 0,
                       user_gold |-> profiles[pid].gold_balance, count_delta |-> Null,
                       duration |-> duration, title_snapshot |-> r.log[1].title_snapshot]>>
         /\ r.profile = profiles[pid]

EveryActivityOutcome ==
    \A c \in Callers, duration \in {Null, -5, 0, 1200},
       title \in {<<>>, <<" ">>, <<" ", "w">>, <<"w", " ">>},
       task \in {NoTask} \cup DOMAIN tasks, reward \in {NoTask} \cup DOMAIN tasks :
       ActivityOutcome(log_activity_duration(c[1], profiles[c[1]], c[2], duration, title, task,
                                             reward, tasks),
                       c[1], c[2], duration, title, task, reward)

\* a step that appends an activity_duration entry appends that one entry and leaves
\* every task and every balance as it was
ActivityFrame ==
    log' # log /\ Len(log') > 0 /\ log'[Len(log')].type = "activity_duration"
    => /\ log' = Append(log, log'[Len(log')])
       /\ tasks' = tasks
       /\ profiles' = profiles

\* C21: log_activity_duration is a pure audit append: on success it adds one
\* activity_duration entry with gold_delta 0 and user_gold equal to the unchanged
\* current balance and mutates no task; it is rejected, appending nothing, when
\* duration <= 0, the title is blank, a referenced task or reward belongs to another
\* profile, or the reward reference is not a reward task.
C21_ActivityIsAuditAppend == []EveryActivityOutcome /\ [][ActivityFrame]_vars

\* an activity was logged after a completion had changed the balance, and carries
\* the balance as the completion left it
C21_Witness ==
    /\ Len(log) = 2
    /\ log[1].type = "todo_completed"
    /\ log[2].type = "activity_duration" /\ log[2].gold_delta = 0
    /\ log[2].user_gold = profiles["pA"].gold_balance
    /\ profiles["pA"].gold_balance # opening["pA"]
    /\ tasks["t1"].is_done

\* the count delta of an increment of the habit t, in thousandths
DeltaOf(t, by) == IF by # Null THEN by ELSE t.count_increment * ByScale

\* the outcome r of habit_increment on the habit t of profile p, by its owner
HabitEffect(r, tid, t, p, by, ts) ==
    /\ r.error = ""
    /\ r.task = [t EXCEPT !.current_count = to_cents(t.current_count * ByScale + DeltaOf(t, by),
                                                       ByScale),
                          !.total_actions_count = t.total_actions_count + 1,
                          !.last_action_at = ts]
    /\ r.profile = [p EXCEPT !.gold_balance = p.gold_balance + t.gold_delta]
    /\ Len(r.log) = 1
    /\ r.log[1].type = "habit_incremented" /\ r.log[1].task = tid
    /\ r.log[1].gold_delta = t.gold_delta
    /\ r.log[1].count_delta = to_cents(DeltaOf(t, by), ByScale)
    /\ r.log[1].user_gold = p.gold_balance + t.gold_delta

\* the values of by: none, 0, 2.00, 2.005, 2.015 and -0.50
HabitSteps == {Null, 0, 2000, 2005, 2015, -500}

\* the habit of the scenario: count_increment 1.50, gold_delta 2.00
ScenarioHabit ==
    [TaskDefaults("pA", "habit", <<"h">>, 200) EXCEPT !.count_increment = 150]

\* the scenario: balance 10.00 and by 2.00 give count 2.00, balance 12.00, and a log
\* entry with count_delta 2.00 and user_gold 12.00
ScenarioOutcome(r) ==
    /\ r.error = ""
    /\ r.task.current_count = 200 /\ r.task.total_actions_count = 1
    /\ r.profile.gold_balance = 1200
    /\ r.log[1].count_delta = 200 /\ r.log[1].user_gold = 1200

\* every increment the owner can make of a habit has the effect, and the step that
\* makes it stores the rows of the outcome
HabitIncrements ==
    \A tid \in DOMAIN tasks, by \in HabitSteps, ts \in LedgerTimes :
       tasks[tid].task_type = "habit"
       => HabitEffect(habit_increment(tid, tasks[tid], "pA", profiles["pA"], "alice", by, ts, tasks),
                      tid, tasks[tid], profiles["pA"], by, ts)

HabitStored ==
    \A c \in Callers, by \in {Null, 2005} :
       HabitIncrement("h1", c[1], c[2], by, FirstTime) /\ log' # log
       => /\ tasks'["h1"].current_count
               = to_cents(tasks["h1"].current_count * ByScale + DeltaOf(tasks["h1"], by), ByScale)
          /\ tasks'["h1"].total_actions_count = tasks["h1"].total_actions_count + 1
          /\ tasks'["h1"].last_action_at = FirstTime
          /\ profiles'["pA"].gold_balance = profiles["pA"].gold_balance + tasks["h1"].gold_delta
          /\ log'[Len(log')].user_gold = profiles'["pA"].gold_balance

\* C22: habit_increment effect: for a habit task, the count delta is by when given
\* and count_increment otherwise; afterwards current_count = to_cents(old count +
\* delta), total_actions_count is one higher, last_action_at is the timestamp, the
\* balance has changed by exactly the task's flat gold_delta, and the log entry has
\* count_delta = to_cents(delta) and user_gold = new balance (count_increment 1.50,
\* gold 2.00, balance 10.00, by 2.00 gives count 2.00 and balance 12.00).
C22_HabitIncrementEffect ==
    /\ [](HabitIncrements
           /\ ScenarioOutcome(habit_increment("h1", ScenarioHabit, "pA",
                                              [account |-> "alice", gold_balance |-> 1000],
                                              "alice", 2000, FirstTime, tasks)))
    /\ [][(log' # log) => HabitStored]_vars

\* the habit was incremented twice, by its own step of 1.50 and by 2.005, which the
\* count rounds half to even
C22_Witness ==
    /\ Len(log) = 2
    /\ log[1].type = "habit_incremented" /\ log[1].count_delta = 150
    /\ log[2].type = "habit_incremented" /\ log[2].count_delta = 200
    /\ tasks["h1"].current_count = 350
    /\ tasks["h1"].total_actions_count = 2

\* the rules of rs whose goal the streak has reached
Reached(rs, streak) == {r \in rs : r.streak_goal <= streak}

\* the percent of the reached rule of the highest goal, 0 when no rule is reached
PercentAtHighestGoal(rs, streak) ==
    IF Reached(rs, streak) = {} THEN 0
    ELSE (CHOOSE r \in Reached(rs, streak) :
             \A q \in Reached(rs, streak) : q.streak_goal <= r.streak_goal).bonus_percent

\* C23: daily_complete applies the bonus_percent of the qualifying rule with the
\* highest streak_goal that is <= the current streak (at most one rule exists per
\* streak_goal), for every set of rules including sets where a lower goal carries a
\* larger percent.
C23_BonusOfHighestGoal ==
    \A i \in DOMAIN completions :
       completions[i].gold_delta
          = to_cents(tasks[completions[i].task].gold_delta
                       * (PercentScale + PercentAtHighestGoal(rules[completions[i].task],
                                                              completions[i].streak)),
                     PercentScale)

\* the outcome r of daily_complete of the daily t with completion_period = x: the
\* gate compares x, and a completion stores x
TrustedVerbatim(r, t, x) ==
    /\ (r.error = "already_completed") = (t.last_completion_period = x)
    /\ r.error = "" => r.period = x /\ r.task.last_completion_period = x

\* C24: an explicit completion_period is trusted verbatim: when daily_complete is
\* called with completion_period = X, the period used for the idempotency gate and
\* stored as last_completion_period is exactly X, with no bucket computation, for
\* every cadence and repeat_every.
C24_ExplicitPeriodVerbatim ==
    \A x \in ProbeDates(tasks["d1"]) :
       TrustedVerbatim(daily_complete("d1", tasks["d1"], "pA", profiles["pA"], "alice", FirstTime,
                                      x, rules["d1"], tasks),
                       tasks["d1"], x)

\* the absolute value
Abs(n) == IF n < 0 THEN -n ELSE n

\* g is num / den rounded half to even: no integer is nearer, and of two as near g
\* is the even one
RoundedHalfEven(g, num, den) ==
    /\ 2 * Abs(num - g * den) <= den
    /\ 2 * Abs(num - g * den) = den => g % 2 = 0

\* C25: for every base gold_delta in whole cents and every bonus_percent with two
\* decimals, the gold_delta logged by daily_complete is the exact product
\* base * (1 + bonus_percent / 100) rounded to cents half to even (0.03 at 50 % gives
\* 0.04, 0.05 at 50 % gives 0.08), and the balance changes by exactly that amount.
C25_DailyRewardRounding ==
    \A i \in DOMAIN log :
       \A r \in rules["d1"] :
          /\ RoundedHalfEven(log[i].gold_delta,
                             tasks["d1"].gold_delta * (PercentScale + r.bonus_percent),
                             PercentScale)
          /\ log[i].user_gold = BalanceBefore(i) + log[i].gold_delta
          /\ completions[i].gold_delta = log[i].gold_delta
          /\ (tasks["d1"].gold_delta = 3 /\ r.bonus_percent = 5000) => log[i].gold_delta = 4
          /\ (tasks["d1"].gold_delta = 5 /\ r.bonus_percent = 5000) => log[i].gold_delta = 8

\* completions of a daily paying 0.03 at 50 %: 0.045 was rounded to 0.04, the even
\* cent, each time
C25_Witness ==
    /\ tasks["d1"].gold_delta = 3
    /\ rules["d1"] = {[streak_goal |-> 1, bonus_percent |-> 5000]}
    /\ Len(log) >= 2
    /\ log[1].gold_delta = 4 /\ log[2].gold_delta = 4
    /\ profiles["pA"].gold_balance = opening["pA"] + 4 * Len(log)

\* the daily t has missed a period at the date today: it was completed, last in a
\* period before the one preceding today's, and has a streak
StreakBroken(t, today) ==
    /\ t.last_completion_period # Null
    /\ t.last_completion_period < previous_period_of(t, get_daily_period_start_for_task(t, today))
    /\ t.current_streak # 0

\* the owner's refresh at ts sets the streak of the daily i to 0 when it is broken
\* and leaves the row as it is otherwise
DailyRolledOver(i, ts) ==
    /\ RefreshOf(tasks, ts).error = ""
    /\ RefreshOf(tasks, ts).tasks[i]
          = IF StreakBroken(tasks[i], local_date_from_dt(ts))
            THEN [tasks[i] EXCEPT !.current_streak = 0]
            ELSE tasks[i]
    /\ tasks[i].last_completion_period
          \in {get_daily_period_start_for_task(tasks[i], local_date_from_dt(ts)),
               previous_period_of(tasks[i],
                                  get_daily_period_start_for_task(tasks[i], local_date_from_dt(ts)))}
       => RefreshOf(tasks, ts).tasks[i] = tasks[i]

\* a step of the refresh writes no balance and no log entry, and of a daily nothing
\* but current_streak
RefreshFrame ==
    \A user \in Users, ts \in RolloverTimes(tasks["d1"]) :
       RefreshProfilePeriodState("pA", user, ts)
       => /\ profiles' = profiles /\ log' = log
          /\ tasks'["d1"] = [tasks["d1"] EXCEPT !.current_streak = tasks'["d1"].current_streak]

\* C26: daily rollover in refresh_profile_period_state at timestamp t: a daily's
\* current_streak is set to 0 exactly when its last_completion_period is non-null
\* and strictly earlier than the start of the period preceding t's period and the
\* streak is non-zero; refresh never changes best_streak, last_completion_period,
\* total_actions_count, the balance or the log, and never touches a daily completed
\* in t's period or the one before it.
C26_DailyRollover ==
    /\ [](\A i \in DOMAIN tasks, ts \in RolloverTimes(tasks["d1"]) :
             tasks[i].task_type = "daily" => DailyRolledOver(i, ts))
    /\ [][(tasks' # tasks) => RefreshFrame]_vars

\* a refresh has reset the streak of a daily whose best streak is 2 and whose last
\* completion it left in place; at one of the times the completion is the period
\* before and would have kept the streak
C26_Witness ==
    /\ tasks["d1"].current_streak = 0
    /\ tasks["d1"].best_streak = 2
    /\ tasks["d1"].last_completion_period # Null
    /\ \E ts \in RolloverTimes(tasks["d1"]) :
          tasks["d1"].last_completion_period
             = previous_period_of(tasks["d1"],
                                  get_daily_period_start_for_task(tasks["d1"], local_date_from_dt(ts)))

\* the dates a and b are in the same reset bucket: the same day, the same week from
\* Monday, the same month of the same year, the same year
SameBucket(a, b, cadence) ==
    CASE cadence = "day" -> a = b
      [] cadence = "week" -> a - Weekday(a) = b - Weekday(b)
      [] cadence = "month" -> YearOf[a] = YearOf[b] /\ MonthOf[a] = MonthOf[b]
      [] cadence = "year" -> YearOf[a] = YearOf[b]

\* the habit t is due for a reset at the date today
ResetDue(t, today) ==
    /\ t.count_reset_cadence \in {"day", "week", "month", "year"}
    /\ t.current_count # 0
    /\ local_date_from_dt(t.last_action_at) < today
    /\ ~SameBucket(local_date_from_dt(t.last_action_at), today, t.count_reset_cadence)

\* the times of the refreshes of a habit: on the day of the action, the next day,
\* the Monday after, the first of the next month and of the next year, and the
\* times of the rollovers
HabitTimes ==
    {FirstTime, (CreatedDate + 1) * TicksPerDay, (CreatedDate + 4) * TicksPerDay,
     MkDate[2025, 12, 1] * TicksPerDay, MkDate[2026, 1, 1] * TicksPerDay + 1}
      \cup RolloverTimes(tasks["d1"])

\* the owner's refresh at ts sets the count of the habit i to 0 when a reset is due
\* and leaves the row as it is otherwise
HabitRolledOver(i, ts) ==
    /\ RefreshOf(tasks, ts).error = ""
    /\ RefreshOf(tasks, ts).tasks[i]
          = IF ResetDue(tasks[i], local_date_from_dt(ts))
            THEN [tasks[i] EXCEPT !.current_count = 0]
            ELSE tasks[i]

\* C27: habit rollover in refresh_profile_period_state at timestamp t: a habit's
\* current_count is reset to 0 exactly when its reset cadence is day, week, month or
\* year, the count is non-zero, and the reset bucket (day / Monday-week / month /
\* year) containing last_action_at is strictly before the bucket containing t;
\* habits with cadence never or null are never reset, and a habit last acted on in
\* t's bucket keeps its count.
C27_HabitRollover ==
    \A i \in DOMAIN tasks, ts \in HabitTimes :
       tasks[i].task_type = "habit" => HabitRolledOver(i, ts)

\* a habit reset by the week has a count; the refresh of the next day, in the same
\* week, keeps it, and the refresh of the Monday after resets it
C27_Witness ==
    /\ tasks["h1"].count_reset_cadence = "week"
    /\ tasks["h1"].current_count = 300
    /\ RefreshOf(tasks, (CreatedDate + 1) * TicksPerDay).tasks["h1"].current_count = 300
    /\ RefreshOf(tasks, (CreatedDate + 4) * TicksPerDay).tasks["h1"].current_count = 0

\* the timestamps of the rollovers of the daily t and of a day one period later
BackfillTimes(t) ==
    RolloverTimes(t) \cup {ProbeDate(t.repeat_cadence, t.repeat_every, MaxSpan) * TicksPerDay}

\* the period that holds the date of ts for the daily t, and the period before a period
PeriodAt(t, ts) == get_daily_period_start_for_task(t, local_date_from_dt(ts))

PeriodBefore(t, period) ==
    previous_daily_period_start[period, IF t.repeat_cadence = "null" THEN "day" ELSE t.repeat_cadence,
                                t.repeat_every]

\* the streak a backfill for the period previous gives the daily t
StreakAfterBackfill(t, previous) ==
    IF t.last_completion_period = PeriodBefore(t, previous) THEN t.current_streak + 1 ELSE 1

\* the row of the daily t after a backfill for the period previous
Backfilled(t, previous) ==
    [t EXCEPT !.last_completion_period = previous,
              !.current_streak = StreakAfterBackfill(t, previous),
              !.best_streak = IF t.best_streak >= StreakAfterBackfill(t, previous)
                              THEN t.best_streak ELSE StreakAfterBackfill(t, previous)]

\* the daily t is not yet completed for the period that holds ts nor for the one before
NotYetCompleted(t, ts) ==
    /\ t.last_completion_period # PeriodAt(t, ts)
    /\ t.last_completion_period # PeriodBefore(t, PeriodAt(t, ts))

\* C28: start_new_day backfill transition: for a named daily not yet completed for the
\* current or the previous period, last_completion_period becomes the previous period
\* start, current_streak becomes prior streak + 1 when the old last_completion_period
\* is the period immediately before the previous period and 1 otherwise (also when
\* the task was never completed), and best_streak becomes max(best_streak,
\* current_streak).
C28_BackfillTransition ==
    \A ts \in BackfillTimes(tasks["d1"]) :
       NotYetCompleted(tasks["d1"], ts)
          => /\ NewDayOf({"d1", "h1"}, ts).error = ""
             /\ NewDayOf({"d1", "h1"}, ts).updated = 1
             /\ NewDayOf({"d1", "h1"}, ts).tasks["d1"]
                   = Backfilled(tasks["d1"], PeriodBefore(tasks["d1"], PeriodAt(tasks["d1"], ts)))

\* the daily was completed once, for the period of its creation, and a backfill two
\* periods later has made its streak two
C28_Witness ==
    /\ tasks["d1"].total_actions_count = 1
    /\ tasks["d1"].current_streak = 2
    /\ tasks["d1"].best_streak = 2
    /\ tasks["d1"].last_completion_period
          = PeriodBefore(tasks["d1"], PeriodAt(tasks["d1"],
               ProbeDate(tasks["d1"].repeat_cadence, tasks["d1"].repeat_every, MaxSpan - 1)
                 * TicksPerDay))

\* the owner's start_new_day with the daily checked at ts, after the owner's refresh
\* at ts
NewDayAfterRefresh(ts) ==
    start_new_day(RefreshOf(tasks, ts).tasks, "pA", profiles["pA"], "alice", {"d1"}, ts)

\* the last completion of the daily t is for the period before the previous period of
\* ts, and the streak it left still stands
CompletedTwoPeriodsBefore(t, ts) ==
    /\ t.last_completion_period # Null
    /\ t.last_completion_period = PeriodBefore(t, PeriodBefore(t, PeriodAt(t, ts)))
    /\ t.last_completion_period < PeriodBefore(t, PeriodAt(t, ts))
    /\ t.current_streak >= 1

\* C29: backfill keeps the streak across a read-time refresh: if a daily's last
\* completion is the period immediately before the previous period and its streak
\* after that completion was s, then start_new_day in the current period yields
\* current_streak = s + 1 also when refresh_profile_period_state has already run in
\* the current period before start_new_day.
C29_BackfillKeepsStreakAfterRefresh ==
    \A ts \in RolloverTimes(tasks["d1"]) :
       CompletedTwoPeriodsBefore(tasks["d1"], ts)
          => /\ NewDayOf({"d1"}, ts).tasks["d1"].current_streak = tasks["d1"].current_streak + 1
             /\ NewDayAfterRefresh(ts).tasks["d1"].current_streak
                   = tasks["d1"].current_streak + 1

\* the timestamps of the calls compared: the creation day, the next day, two and
\* three days on
AgreeTimes == {FirstTime, (CreatedDate + 1) * TicksPerDay, LaterTime, (CreatedDate + 3) * TicksPerDay}

\* the lists of checked ids compared: dailies of both profiles, a habit and a todo
AgreeLists == SUBSET {"d1", "d2", "h2", "t1"}

\* the ids the preview pv reports
Reported(pv) == {e.id : e \in pv.results}

\* the tasks whose last_completion_period differs between the rows tt and the rows tt2
CompletionChanged(tt, tt2) ==
    {i \in DOMAIN tt : tt2[i].last_completion_period # tt[i].last_completion_period}

\* the outcome r of the owner's start_new_day on the profile pid with the ids checked
\* at ts agrees with the owner's preview pv at ts and with the outcome own of the
\* call that names only the profile's own dailies among them
AgreesWithPreview(r, pv, own, pid, checked, ts) ==
    /\ r.error = ""
    /\ pv.error = ""
    /\ \A i \in DOMAIN tasks :
          /\ i \in CompletionChanged(tasks, r.tasks)
                <=> /\ i \in checked
                    /\ tasks[i].profile = pid
                    /\ i \in Reported(pv)
          /\ (tasks[i].task_type = "daily" /\ ~NotYetCompleted(tasks[i], ts))
                => r.tasks[i].last_completion_period = tasks[i].last_completion_period
          /\ tasks[i].profile # pid => r.tasks[i] = tasks[i]
    /\ r = own
    /\ r.updated = Cardinality(CompletionChanged(tasks, r.tasks))

\* C30: preview and backfill agree: for every profile state and timestamp t,
\* start_new_day at t changes the completion state (last_completion_period) of a daily
\* T if and only if T is named in checked_daily_ids, belongs to the profile and is
\* reported by get_uncompleted_dailies_from_previous_period at t; it never overwrites
\* a completion already recorded for the current or the previous period, ignores ids
\* of other profiles or non-daily tasks, and updated_count is the number of dailies it
\* changed.
C30_PreviewAndBackfillAgree ==
    \A pid \in Profiles, ts \in AgreeTimes, checked \in AgreeLists :
       \A r \in {start_new_day(tasks, pid, profiles[pid], AccountOf[pid], checked, ts)} :
       \A pv \in {get_uncompleted_dailies_from_previous_period(
                      tasks, pid, profiles[pid], AccountOf[pid], ts)} :
       \A own \in {start_new_day(tasks, pid, profiles[pid], AccountOf[pid],
                                  {i \in checked : /\ tasks[i].profile = pid
                                                    /\ tasks[i].task_type = "daily"}, ts)} :
          AgreesWithPreview(r, pv, own, pid, checked, ts)

\* bob's daily, never completed, has been backfilled for yesterday: the preview no
\* longer reports it and a second start_new_day naming it and alice's daily changes
\* nothing; alice's daily, reported to her, is as it was
C30_Witness ==
    /\ tasks["d2"].total_actions_count = 0
    /\ tasks["d2"].last_completion_period = CreatedDate + 1
    /\ tasks["d2"].current_streak = 1
    /\ tasks["d1"] = AliceTasks["d1"]
    /\ "d2" \notin Reported(get_uncompleted_dailies_from_previous_period(
                        tasks, "pB", profiles["pB"], "bob", LaterTime))
    /\ start_new_day(tasks, "pB", profiles["pB"], "bob", {"d1", "d2"}, LaterTime).updated = 0
    /\ "d1" \in Reported(get_uncompleted_dailies_from_previous_period(
                     tasks, "pA", profiles["pA"], "alice", LaterTime))

\* the date the daily t was created on: the anchor of its periods
AnchorOf(t) == local_date_from_dt(t.created_at)

\* the start of the bucket that holds the anchor of the daily t: the anchor itself,
\* the Monday on or before it, day 1 of its month, January 1 of its year
AnchorBucketStart(t) ==
    CASE t.repeat_cadence = "day" -> AnchorOf(t)
      [] t.repeat_cadence = "week" -> AnchorOf(t) - Weekday(AnchorOf(t))
      [] t.repeat_cadence = "month" -> MkDate[YearOf[AnchorOf(t)], MonthOf[AnchorOf(t)], 1]
      [] t.repeat_cadence = "year" -> MkDate[YearOf[AnchorOf(t)], 1, 1]

\* the date n units of the cadence after the bucket start s
PlusUnits(s, cadence, n) ==
    CASE cadence = "day" -> s + n
      [] cadence = "week" -> s + 7 * n
      [] cadence = "month" ->
           MkDate[(YearOf[s] * 12 + MonthOf[s] - 1 + n) \div 12,
                  ((YearOf[s] * 12 + MonthOf[s] - 1 + n) % 12) + 1, 1]
      [] cadence = "year" -> MkDate[YearOf[s] + n, 1, 1]

\* the date s is a whole multiple of n units of the cadence after the bucket start a
OnGrid(s, a, cadence, n) ==
    CASE cadence = "day" -> s >= a /\ (s - a) % n = 0
      [] cadence = "week" -> s >= a /\ (s - a) % (7 * n) = 0
      [] cadence = "month" ->
           /\ s = MkDate[YearOf[s], MonthOf[s], 1]
           /\ s >= a
           /\ ((YearOf[s] * 12 + MonthOf[s]) - (YearOf[a] * 12 + MonthOf[a])) % n = 0
      [] cadence = "year" ->
           /\ s = MkDate[YearOf[s], 1, 1]
           /\ s >= a
           /\ (YearOf[s] - YearOf[a]) % n = 0

\* the dates the resolver is asked about for the daily t, and dates of the week, the
\* month and the year before its creation
GridDates(t) == TargetDates(t) \cup {AnchorOf(t) - k : k \in {3, 7, 40, 400}}

\* the period start s the resolver returns for the daily t and the date d holds d and
\* is on the grid of t, or is the anchor bucket start when d is before it
ContainsAndClamps(t, d, s) ==
    /\ d >= AnchorBucketStart(t)
          => /\ OnGrid(s, AnchorBucketStart(t), t.repeat_cadence, t.repeat_every)
             /\ s <= d
             /\ d < PlusUnits(s, t.repeat_cadence, t.repeat_every)
    /\ d < AnchorOf(t) => s = AnchorBucketStart(t)

\* C31: bucket containment and clamping of daily_period_start: for every cadence,
\* repeat_every N >= 1, anchor and target date at or after the start of the anchor's
\* bucket, the returned period start P satisfies P <= target < P + N units and P lies
\* a whole multiple of N units after the anchor bucket start; for every target before
\* the anchor the result is the anchor bucket start, never an earlier date.
C31_BucketContainment ==
    \A d \in GridDates(tasks["d1"]) :
       ContainsAndClamps(tasks["d1"], d, get_daily_period_start_for_task(tasks["d1"], d))

\* a daily of every second day has been completed for the 31st day after its
\* creation: the period recorded starts on the 30th
C31_Witness ==
    /\ tasks["d1"].repeat_cadence = "day"
    /\ tasks["d1"].repeat_every = 2
    /\ tasks["d1"].last_completion_period = AnchorOf(tasks["d1"]) + 30
    /\ get_daily_period_start_for_task(tasks["d1"], AnchorOf(tasks["d1"]) - 1) = AnchorOf(tasks["d1"])

\* the week period of the date d for an interval of n weeks from the anchor a
WeekPeriod(d, n, a) == daily_period_start[d, "week", n, a]

\* the Monday on or before the date d
MondayOnOrBefore(d) == CHOOSE m \in (d - 6)..d : Weekday(m) = 0

\* the week period of d is a Monday, a multiple of 7 * n days after the Monday on or
\* before the anchor a, and the period of every date of the week of d
MondayAligned(d, n, a) ==
    /\ Weekday(WeekPeriod(d, n, a)) = 0
    /\ WeekPeriod(d, n, a) >= MondayOnOrBefore(a)
    /\ (WeekPeriod(d, n, a) - MondayOnOrBefore(a)) % (7 * n) = 0
    /\ \A e \in MondayOnOrBefore(d)..(MondayOnOrBefore(d) + 6) :
          WeekPeriod(e, n, a) = WeekPeriod(d, n, a)

\* C32: week buckets are Monday-aligned: for cadence week, every repeat_every and
\* every anchor weekday, daily_period_start returns a Monday whose distance from the
\* Monday on or before the anchor is a multiple of 7 * repeat_every days, and two
\* dates of the same Monday-to-Sunday week always resolve to the same period.
C32_WeekMondayAligned ==
    tasks["d1"].repeat_cadence = "week"
       => \A j \in 0..6, d \in GridDates(tasks["d1"]) :
             MondayAligned(d, tasks["d1"].repeat_every, AnchorOf(tasks["d1"]) + j)

\* a weekly daily created on a Thursday has been completed for a Sunday 31 days
\* later: the period recorded is the Monday of that week
C32_Witness ==
    /\ tasks["d1"].repeat_cadence = "week"
    /\ tasks["d1"].repeat_every = 1
    /\ Weekday(AnchorOf(tasks["d1"])) = 3
    /\ tasks["d1"].last_completion_period = AnchorOf(tasks["d1"]) + 25
    /\ Weekday(tasks["d1"].last_completion_period) = 0

\* the previous period start v of the period start s of the daily t is a date, one
\* bucket width before s: repeat_every days, weeks, calendar months or years, and
\* for month and year the first day of a month
OneWidthBack(t, s, v) ==
    /\ v # DateError
    /\ v >= MinOrdinal
    /\ v = PlusUnits(s, t.repeat_cadence, 0 - t.repeat_every)
    /\ t.repeat_cadence \in {"month", "year"} => v = MkDate[YearOf[v], MonthOf[v], 1]
    /\ t.repeat_cadence = "year" => MonthOf[v] = 1

\* C33: previous_daily_period_start subtracts exactly one bucket width independent of
\* the anchor: N days for day, 7N days for week, N calendar months for month (day 1 of
\* the month N months earlier, with correct year for N > 12 and when crossing
\* January), N years for year (January 1); for month and year cadence the result is
\* always a valid first-of-month date.
C33_PreviousIsOneWidthBack ==
    \A d \in GridDates(tasks["d1"]) :
       \A s \in {get_daily_period_start_for_task(tasks["d1"], d)} :
          OneWidthBack(tasks["d1"], s, previous_period_of(tasks["d1"], s))

\* the owner's daily_complete of d1 on the rows tt at the request time now for the
\* completion_period given
CompleteOn(tt, now, completion_period) ==
    daily_complete("d1", tt["d1"], "pA", profiles["pA"], "alice", now, completion_period,
                   rules["d1"], tt)

\* the outcomes r and q of two completions are the same: the same error, streaks,
\* period and gold
SameCompletion(r, q) ==
    /\ r.error = q.error
    /\ r.error = ""
          => /\ r.task.current_streak = q.task.current_streak
             /\ r.task.best_streak = q.task.best_streak
             /\ r.task.last_completion_period = q.task.last_completion_period
             /\ r.log[1].gold_delta = q.log[1].gold_delta
             /\ r.profile.gold_balance = q.profile.gold_balance

\* the request times of the endpoint for the daily t
RequestTimes(t) == {ProbeTime(t), RolloverTime(t)}

\* C34: running refresh_profile_period_state at the request time immediately before
\* daily_complete never changes the outcome of daily_complete: the resulting
\* current_streak, best_streak, last_completion_period and gold awarded are the same
\* as without the refresh, including when completion_period names a backdated period
\* that directly follows the last completion.
C34_RefreshKeepsCompletionOutcome ==
    \A now \in RequestTimes(tasks["d1"]), d \in ProbeDates(tasks["d1"]) \cup {Null} :
       /\ RefreshOf(tasks, now).error = ""
       /\ SameCompletion(CompleteOn(tasks, now, d), CompleteOn(RefreshOf(tasks, now).tasks, now, d))

\* the owner's habit_increment of h1 by its own step at ts, on the rows tt
IncrementOn(tt, ts) ==
    habit_increment("h1", tt["h1"], "pA", profiles["pA"], "alice", Null, ts, tt)

\* the habit t resets by a cadence and was last acted on in a reset period before
\* that of ts
LaterResetPeriod(t, ts) ==
    /\ t.count_reset_cadence \in {"day", "week", "month", "year"}
    /\ t.last_action_at # Null
    /\ local_date_from_dt(t.last_action_at) < local_date_from_dt(ts)
    /\ ~SameBucket(local_date_from_dt(t.last_action_at), local_date_from_dt(ts),
                   t.count_reset_cadence)

\* the outcome r of an increment at ts leaves the count at the increment's delta, and
\* a refresh at ts after it keeps the count
CountsDeltaAlone(r, ts) ==
    r.error = ""
       => /\ r.task.current_count = r.log[1].count_delta
          /\ RefreshOf([tasks EXCEPT !["h1"] = r.task], ts).tasks["h1"].current_count
                = r.task.current_count

\* C35: a habit counter with a day/week/month/year reset cadence never mixes counts
\* of different reset periods: after a habit_increment whose timestamp lies in a later
\* reset period than the habit's previous last_action_at, current_count equals that
\* increment's delta alone, whether or not refresh_profile_period_state ran before the
\* increment, and a later refresh in the increment's own period does not wipe it.
C35_HabitCountOfOnePeriod ==
    \A ts \in HabitTimes :
       LaterResetPeriod(tasks["h1"], ts)
          => /\ CountsDeltaAlone(IncrementOn(RefreshOf(tasks, ts).tasks, ts), ts)
             /\ CountsDeltaAlone(IncrementOn(tasks, ts), ts)

\* last_completion_period of the daily t is null or a period start of the grid of t
CompletionOnGrid(t) ==
    t.last_completion_period # Null
       => /\ t.last_completion_period >= AnchorBucketStart(t)
          /\ OnGrid(t.last_completion_period, AnchorBucketStart(t), t.repeat_cadence,
                    t.repeat_every)

\* C36: last_completion_period stays on the task's own period grid: for every daily
\* task, in every reachable state, last_completion_period is null or a period start
\* that daily_period_start can return for that task, so it is never earlier than the
\* bucket containing the task's creation date; in particular start_new_day never
\* records a completion for a period before the task existed.
C36_CompletionOnOwnGrid ==
    \A i \in DOMAIN tasks : tasks[i].task_type = "daily" => CompletionOnGrid(tasks[i])

\* the streaks of the daily t are within bounds
StreakWithinBounds(t) ==
    /\ t.best_streak >= t.current_streak
    /\ t.current_streak >= 0
    /\ t.current_streak > 0 => t.last_completion_period # Null

\* from the row t0 to the row t1 best_streak does not decrease, and a completion or a
\* backfill (either records a new last_completion_period) leaves a streak of at least 1
StreakStep(t0, t1) ==
    /\ t1.best_streak >= t0.best_streak
    /\ (t1.last_completion_period # t0.last_completion_period
           \/ t1.total_actions_count # t0.total_actions_count)
          => t1.current_streak >= 1

\* C37: streak bounds: for every daily task, in every state reachable from a fresh
\* task through daily_complete, start_new_day and refresh_profile_period_state,
\* best_streak >= current_streak, best_streak never decreases, current_streak >= 1
\* immediately after a successful daily_complete or backfill, and current_streak > 0
\* implies last_completion_period is not null.
C37_StreakBounds ==
    /\ [](\A i \in DOMAIN tasks : tasks[i].task_type = "daily" => StreakWithinBounds(tasks[i]))
    /\ [][\A i \in DOMAIN tasks :
             tasks[i].task_type = "daily" => StreakStep(tasks[i], tasks'[i])]_vars

\* one completion and one backfill after it have made a streak of two, the best so far
C37_Witness ==
    /\ tasks["d1"].total_actions_count = 1
    /\ tasks["d1"].current_streak = 2
    /\ tasks["d1"].best_streak = 2

\* the types of the log entries of the four task actions
ActionTypes == {"habit_incremented", "daily_completed", "todo_completed", "reward_claimed"}

\* the number of log entries of a task action that refer to the task i
ActionEntries(i) == Cardinality({k \in 1..Len(log) : log[k].type \in ActionTypes /\ log[k].task = i})

\* the number of log entries of the given type that refer to the task i
EntriesOfType(i, type) == Cardinality({k \in 1..Len(log) : log[k].type = type /\ log[k].task = i})

\* the counters and flags of the task i agree with the log
CountersAgree(i) ==
    /\ tasks[i].total_actions_count = ActionEntries(i)
    /\ tasks[i].task_type = "reward"
          => /\ tasks[i].claim_count = EntriesOfType(i, "reward_claimed")
             /\ tasks[i].is_claimed <=> tasks[i].claim_count > 0
             /\ tasks[i].is_claimed <=> tasks[i].claimed_at # Null
    /\ tasks[i].task_type = "todo"
          => /\ tasks[i].is_done <=> tasks[i].completed_at # Null
             /\ tasks[i].is_done <=> EntriesOfType(i, "todo_completed") = 1
             /\ EntriesOfType(i, "todo_completed") <= 1

\* C38: task counters agree with the log: for every task created fresh, after any
\* sequence of operations total_actions_count equals the number of action log entries
\* (habit_incremented, daily_completed, todo_completed, reward_claimed) that reference
\* it; for a reward claim_count equals the number of its reward_claimed entries and
\* is_claimed holds iff claim_count > 0 iff claimed_at is set; for a todo is_done
\* holds iff completed_at is set iff exactly one todo_completed entry exists.
C38_CountersAgreeWithLog == \A i \in DOMAIN tasks : CountersAgree(i)

\* the repeatable reward has been claimed twice
C38_Witness ==
    /\ tasks["r1"].claim_count = 2
    /\ tasks["r1"].total_actions_count = 2
    /\ EntriesOfType("r1", "reward_claimed") = 2

\* the rows the transaction x has to lock next
Wanted(x) ==
    CASE x.pc = "begun" -> {x.profile}
      [] x.pc = "profile_locked" /\ x.op \in ActionOps -> {x.task}
      [] x.pc = "profile_locked" /\ x.op = "log_activity" /\ owner_locked(x) -> {x.task} \ {NoTask}
      [] x.pc = "profile_locked" /\ x.op = "refresh" /\ owner_locked(x) -> rows_of(x.profile, "daily")
      [] x.pc = "profile_locked" /\ x.op = "start_new_day" /\ owner_locked(x) ->
           rows_of(x.profile, "daily") \cap {x.task}
      [] x.pc = "checked_locked" -> rows_of(x.profile, "daily")
      [] x.pc = "dailies_locked" -> rows_of(x.profile, "habit")
      [] x.pc = "task_locked" /\ ~task_of_other_profile(x) -> {x.reward} \ {NoTask}
      [] OTHER -> {}

\* the connection p waits for a row that the connection q holds
WaitsFor(p, q) == p # q /\ \E row \in Wanted(txn[p]) : q \in locks[row]

\* some connections wait each for another of them
CyclicWait == \E S \in (SUBSET Procs) \ {{}} : \A p \in S : \E q \in S : WaitsFor(p, q)

\* every transaction holds the lock of its profile row while it holds one of a task row
ProfileLockedFirst ==
    \A proc \in Procs :
       (\E row \in DOMAIN tasks : proc \in locks[row]) => proc \in locks[txn[proc].profile]

\* C39: no deadlock: every operation takes the profile row lock first and task row
\* locks only afterwards (refresh and start_new_day lock all their tasks while holding
\* the profile lock), so for any set of concurrent operations on any profiles and
\* tasks no cyclic wait arises and every started operation eventually commits or
\* fails with an error.
C39_NoCyclicWait == ProfileLockedFirst /\ ~CyclicWait

\* the dates of the grid of the daily t that are compared: those the resolver is asked
\* about, and dates three and four years after its creation
MonotoneDates(t) == GridDates(t) \cup {AnchorOf(t) + k : k \in {1100, 1461}}

\* the periods of the dates d and e of the daily t are in the order of the dates
InOrder(t, d, e) ==
    d <= e => get_daily_period_start_for_task(t, d) <= get_daily_period_start_for_task(t, e)

\* the period before the period start s of the daily t, when s is later than the
\* anchor bucket start, is the period of the day before s
Adjacent(t, s) ==
    s > AnchorBucketStart(t)
       => /\ previous_period_of(t, s) # DateError
          /\ previous_period_of(t, s) = get_daily_period_start_for_task(t, s - 1)

\* C40: the period grid is monotone and gap-free: for every cadence, repeat_every and
\* anchor, D1 <= D2 implies daily_period_start(D1) <= daily_period_start(D2), and for
\* every date D whose period start P is later than the anchor bucket start,
\* previous_daily_period_start(P) equals daily_period_start(P minus one day), i.e.
\* the anchor-independent previous period is exactly the bucket adjacent to P.
C40_GridMonotoneGapFree ==
    \A d \in MonotoneDates(tasks["d1"]) :
       /\ \A e \in MonotoneDates(tasks["d1"]) : InOrder(tasks["d1"], d, e)
       /\ Adjacent(tasks["d1"], get_daily_period_start_for_task(tasks["d1"], d))

\* a daily of every second month created 2025-11-20 has been completed for a date a
\* year later: its period starts 2026-11-01, the one before it 2026-09-01
C40_Witness ==
    /\ tasks["d1"].repeat_cadence = "month"
    /\ tasks["d1"].repeat_every = 2
    /\ tasks["d1"].last_completion_period = MkDate[2026, 11, 1]
    /\ previous_period_of(tasks["d1"], tasks["d1"].last_completion_period) = MkDate[2026, 9, 1]
    /\ get_daily_period_start_for_task(tasks["d1"], MkDate[2026, 10, 31]) = MkDate[2026, 9, 1]

====
